---- MODULE Spec2Model ----
(***************************************************************************)
(* The runbook ingestion pipeline of functions/ingestion/index.js:         *)
(* runbookIngestionHttp -> runIngestion -> listDriveFiles ->               *)
(* getFileContent/splitText per file -> embedChunks -> upsertVectors.      *)
(* One step of the model is the code between two awaits of the run.        *)
(***************************************************************************)
EXTENDS Integers, Sequences, FiniteSets, TLC

\* ---- bounds of the model ------------------------------------------------
\* The source sets CHUNK_SIZE = 1000, CHUNK_OVERLAP = 150,
\* EMBEDDING_BATCH_SIZE = 200 and UPSERT_BATCH_SIZE = 100 (index.js:11-14);
\* the model keeps their roles and order (overlap < size, upsert batch <
\* embedding batch) at sizes a model checker can enumerate.
CHUNK_SIZE == 2
CHUNK_OVERLAP == 1
EMBEDDING_BATCH_SIZE == 3
UPSERT_BATCH_SIZE == 2
\* files the Drive folder holds at most, pages a listing has at most, files
\* a page carries at most, characters a file's text has at most
MaxFiles == 3
MaxPages == 2
MaxPageFiles == 2
MaxTextLen == 3
\* characters of the longest text, and the largest chunk size, the splitter
\* is tried with on its own
MaxSplitText == 10
MaxSplitSize == 5
MaxCalls == 4
MaxGenerations == 2
MaxMessages == 3
MaxHistoryLength == 12

\* ---- SUPPORTED_MIME_TYPES (index.js:16-24) --------------------------------
GDOC == "application/vnd.google-apps.document"
PDF == "application/pdf"
PLAIN == "text/plain"
SUPPORTED_MIME_TYPES == {GDOC, PLAIN, "text/markdown", PDF}
PNG == "image/png"
\* the mime types the model's Drive folder holds, a type the pipeline does
\* not support among them
MimeTypes == {GDOC, PDF, PNG}

\* ---- sequences -----------------------------------------------------------
Min(a, b) == IF a < b THEN a ELSE b

\* Array.prototype.slice(from, to) with 0-based from and exclusive to
Slice(s, from, to) == SubSeq(s, from + 1, Min(to, Len(s)))

\* ---- text ----------------------------------------------------------------
\* A text is a sequence of characters; the characters of file f are the
\* numbers 10*f + 1, 10*f + 2, ..., none of them a separator of the splitter,
\* so the texts of two files share no character.
TextOf(f, len) == [k \in 1..len |-> 10 * f + k]

\* the lengths of the texts the model's files have: empty, one character,
\* and long enough for more than one chunk
TextLens == {0, 1, MaxTextLen}

\* RecursiveCharacterTextSplitter.mergeSplits for the separator "" (every
\* split one character): the window slides over the characters, emitting the
\* current window when the next character would exceed chunkSize and then
\* dropping characters from its front while more than chunkOverlap remain.
RECURSIVE DropFront(_, _, _)
DropFront(cur, size, overlap) ==
    IF Len(cur) > overlap \/ (Len(cur) + 1 > size /\ Len(cur) > 0)
    THEN DropFront(Tail(cur), size, overlap)
    ELSE cur

RECURSIVE MergeSplits(_, _, _, _, _)
MergeSplits(text, k, cur, size, overlap) ==
    IF k > Len(text)
    THEN (IF cur = <<>> THEN <<>> ELSE <<cur>>)
    ELSE IF Len(cur) + 1 > size /\ cur # <<>>
         THEN <<cur>> \o MergeSplits(text, k + 1,
                             Append(DropFront(cur, size, overlap), text[k]),
                             size, overlap)
         ELSE MergeSplits(text, k + 1, Append(cur, text[k]), size, overlap)

\* a splitter that emits its window as soon as it holds chunkSize - 1
\* characters
RECURSIVE MergeSplits_early(_, _, _, _, _)
MergeSplits_early(text, k, cur, size, overlap) ==
    IF k > Len(text)
    THEN (IF cur = <<>> THEN <<>> ELSE <<cur>>)
    ELSE IF Len(cur) + 1 >= size /\ cur # <<>>
         THEN <<cur>> \o MergeSplits_early(text, k + 1,
                             Append(DropFront(cur, size, overlap), text[k]),
                             size, overlap)
         ELSE MergeSplits_early(text, k + 1, Append(cur, text[k]), size, overlap)

CreateDocuments_early(text, size, overlap) ==
    IF size <= 1
    THEN [k \in 1..Len(text) |-> <<text[k]>>]
    ELSE MergeSplits_early(text, 1, <<>>, size, overlap)

\* a splitter that cuts a window of chunkSize at every chunkSize - chunkOverlap
\* characters, up to the end of the text
RECURSIVE Windows(_, _, _, _)
Windows(text, from, size, overlap) ==
    IF from > Len(text)
    THEN <<>>
    ELSE <<SubSeq(text, from, Min(from + size - 1, Len(text)))>>
            \o Windows(text, from + size - overlap, size, overlap)

CreateDocuments_stride(text, size, overlap) == Windows(text, 1, size, overlap)

\* splitter.createDocuments([text]) on a text without separators: characters
\* of length 1 < chunkSize are merged; with chunkSize 1 every character is a
\* chunk of its own.
CreateDocuments(text, size, overlap) ==
    IF size <= 1
    THEN [k \in 1..Len(text) |-> <<text[k]>>]
    ELSE MergeSplits(text, 1, <<>>, size, overlap)

\* the id as it would be without the chunk's index in it
ChunkId_perFile(fileId, index) == <<fileId, "_chunk_", 0>>

\* The decimal digits of a number, as a template literal writes it.
RECURSIVE Digits(_)
Digits(n) ==
    IF n < 10
    THEN <<(<<"0", "1", "2", "3", "4", "5", "6", "7", "8", "9">>)[n + 1]>>
    ELSE Digits(n \div 10) \o Digits(n % 10)

\* The string a file id stands for. Drive's ids are opaque strings; the
\* model's files with an even number have as id the very string that is the
\* id of the first chunk of the file before them.
DocumentIdString(fileId) ==
    IF fileId % 2 = 1
    THEN <<"A">> \o Digits(fileId)
    ELSE <<"A">> \o Digits(fileId - 1) \o <<"_", "c", "h", "u", "n", "k", "_", "0">>

\* The characters of `${file.id}_chunk_${index}` for an id of the model.
ChunkIdString(id) ==
    DocumentIdString(id[1]) \o <<"_", "c", "h", "u", "n", "k", "_">> \o Digits(id[3])

\* doc.metadata.id = `${file.id}_chunk_${index}`
ChunkId(fileId, index) == <<fileId, "_chunk_", index>>

\* splitText as it would be numbering the chunks of a file from 1
splitText_oneBased(text, file) ==
    IF text = <<>>
    THEN <<>>
    ELSE LET documents == CreateDocuments(text, CHUNK_SIZE, CHUNK_OVERLAP)
         IN  [i \in 1..Len(documents) |->
                 [id |-> ChunkId(file.id, i),
                  source |-> file.id,
                  pageContent |-> documents[i]]]

\* splitText(text, file): [] for empty text, else the documents of the
\* splitter, the one at (0-based) index i stamped with the id of (file, i).
splitText(text, file) ==
    IF text = <<>>
    THEN <<>>
    ELSE LET documents == CreateDocuments(text, CHUNK_SIZE, CHUNK_OVERLAP)
         IN  [i \in 1..Len(documents) |->
                 [id |-> ChunkId(file.id, i - 1),
                  source |-> file.id,
                  pageContent |-> documents[i]]]

\* ---- the embedding service -------------------------------------------------
\* The vector the model returns for one text.
Embedding(text) == <<"vec", text>>

\* embedDocuments(texts), when it answers as documented: one vector per text,
\* position i of the answer for position i of the request.
EmbedDocuments(texts) == [i \in 1..Len(texts) |-> Embedding(texts[i])]

\* The vector a later run may get for a text it embedded before: the service
\* need not give the same vector twice.
Drifted(text) == <<"vec~", text>>

\* The number of components of the vectors the index was created for
\* (docs/config_guide.md:121), which is what the model's embedding gives.
Dimension == Len(Embedding(<<>>))

\* The vector of an embedding model of another output dimension.
OtherDimension(text) == <<"vec", text, "more">>

\* ---- state ---------------------------------------------------------------
VARIABLES
    pc,              \* where the run is: the call it awaits, or how it ended
    files,           \* listDriveFiles: the files of the pages read so far
    listCalls,       \* drive.files.list calls issued
    pages,           \* the pages drive.files.list answered with
    fileIdx,         \* runIngestion: position of the for loop in files
    allChunks,       \* runIngestion: the chunks of all files
    filesProcessed,  \* runIngestion: files that gave at least one chunk
    contentCalls,    \* ids of the files a download/export call was issued for
    contents,        \* what getFileContent returned, file by file
    splitCalls,      \* ids of the files whose text was given to the splitter
    embI,            \* embedChunks: the loop's offset i
    embeddedChunks,  \* embedChunks: the records built so far
    embedCalls,      \* the batches of texts given to embedDocuments, with answer
    upI,             \* upsertVectors: the loop's offset i
    upsertedCount,   \* upsertVectors: vectors of the batches that succeeded
    upsertCalls,     \* the requests given to upsertDatapoints, with outcome
    index,           \* the vector index: datapointId -> featureVector pairs
    result,          \* what runIngestion returned
    errorMessage,    \* what runIngestion threw
    httpStatus,      \* the status runbookIngestionHttp answered with
    response,        \* the body runbookIngestionHttp answered with
    prevRun,         \* what the run before this one read and left in the index
    splitter,        \* a RecursiveCharacterTextSplitter called on its own
    race,            \* two invocations in their upsertVectors loops at once
    retriever,       \* rag/retriever.js: its module variables and its calls
    generator,       \* rag/generator.js: its module variables and its calls
    handler,         \* the log_incident_button handler: a click, and its calls
    history,         \* a call of formatSlackHistory: arguments and value
    config,          \* the environment and the secrets getConfig reads
    log              \* console.warn / console.error entries of the run

listVars == <<files, listCalls, pages>>
fileVars == <<fileIdx, allChunks, filesProcessed, contentCalls, contents, splitCalls>>
embedVars == <<embI, embeddedChunks, embedCalls>>
upsertVars == <<upI, upsertedCount, upsertCalls, index>>
\* what only the end of a run, or the start of another, changes
\* what the parts of the program that are followed on their own are in
apartVars == <<splitter, race, retriever, generator, handler, history, config>>
endVars == <<result, errorMessage, httpStatus, response, prevRun, apartVars>>
vars == <<pc, listVars, fileVars, embedVars, upsertVars, endVars, log>>

None == "none"

\* what getFileContent returns: null, or a text (that may be empty)
Null == [ok |-> FALSE, text |-> <<>>]
Text(t) == [ok |-> TRUE, text |-> t]

\* no second invocation is under way
NoRace == [A |-> [embeddedChunks |-> <<>>, upI |-> 0],
           B |-> [embeddedChunks |-> <<>>, upI |-> 0]]

\* `null` where a retriever is expected; a retriever is the store it was
\* made from, numbered in the order of construction, and its k
NoInstance == [store |-> 0, k |-> 0]

\* rag/retriever.js as the module is loaded (retriever.js:6-7): nothing
\* cached, no call made. `now` counts the steps of the module, `configLoads`
\* the getConfig calls and `stores` the VertexAIVectorStore objects built.
Unloaded == [retrieverInstance |-> NoInstance, calls |-> <<>>, now |-> 0,
             configLoads |-> 0, stores |-> 0]

\* rag/generator.js as the module is loaded (part_008:40-41): no LLM client
\* cached, no call made
NoLlm == [llm |-> FALSE, calls |-> <<>>]

\* no button was clicked
NoClick == [pc |-> "idle", body |-> [thread_ts |-> None, blocks |-> None, text |-> ""],
            calls |-> <<>>, originalText |-> "", permalink |-> "", errors |-> <<>>]

\* The secrets of productionSecretNames (index.js:30-36), by their words.
SecretNames ==
    {<<"VERTEX", "AI", "INDEX", "ID">>,
     <<"VERTEX", "AI", "INDEX", "ENDPOINT", "ID">>,
     <<"VERTEX", "AI", "EMBEDDING", "MODEL", "NAME">>,
     <<"GOOGLE", "DRIVE", "FOLDER", "ID">>,
     <<"DRIVE", "SERVICE", "ACCOUNT", "KEY">>}

DRIVE_SERVICE_ACCOUNT_KEY == <<"DRIVE", "SERVICE", "ACCOUNT", "KEY">>

\* no environment variable set, no secret that can be read: what the runs
\* that are followed from after getConfig never look at
Unread == [env |-> [GCP_PROJECT_ID |-> "", GCP_REGION |-> ""],
           secrets |-> [name \in SecretNames |-> "rejected"]]

\* formatSlackHistory is not called
NoHistory == [state |-> "idle", messages |-> <<>>, maxLength |-> 0, out |-> <<>>]

\* no splitter is called on its own in a run
Idle == [state |-> "idle", text |-> <<>>, size |-> 0, overlap |-> 0, out |-> <<>>]

InitRun ==
    /\ pc = "getConfig"
    /\ files = <<>>
    /\ listCalls = 0
    /\ pages = <<>>
    /\ fileIdx = 1
    /\ allChunks = <<>>
    /\ filesProcessed = 0
    /\ contentCalls = <<>>
    /\ contents = <<>>
    /\ splitCalls = <<>>
    /\ embI = 0
    /\ embeddedChunks = <<>>
    /\ embedCalls = <<>>
    /\ upI = 0
    /\ upsertedCount = 0
    /\ upsertCalls = <<>>
    /\ result = None
    /\ errorMessage = None
    /\ httpStatus = None
    /\ response = [status |-> None]
    /\ prevRun = [n |-> 0]
    /\ log = <<>>

\* the first run: the index is empty
Init == InitRun /\ index = {} /\ splitter = Idle /\ race = NoRace /\ retriever = Unloaded /\ generator = NoLlm /\ handler = NoClick /\ history = NoHistory /\ config = Unread

\* ---- how a run ends ----------------------------------------------------------
\* the handler as it would be answering with a status of its own for a run
\* that logged a failure
Return_withErrors(r) ==
    /\ pc' = "returned"
    /\ result' = r
    /\ httpStatus' = 200
    /\ response' = [status |-> IF log = <<>> THEN "success" ELSE "completed_with_errors",
                    result |-> r]
    /\ UNCHANGED <<errorMessage, prevRun, apartVars>>

\* runIngestion returns r: the handler answers 200 with status 'success'
\* and the summary r as result (index.js:433-440).
Return(r) ==
    /\ pc' = "returned"
    /\ result' = r
    /\ httpStatus' = 200
    /\ response' = [status |-> "success", result |-> r]
    /\ UNCHANGED <<errorMessage, prevRun, apartVars>>

\* runIngestion throws: the handler's catch answers 500 with status 'error'
\* and the message (index.js:441-446).
Throw(msg) ==
    /\ pc' = "thrown"
    /\ errorMessage' = msg
    /\ httpStatus' = 500
    /\ response' = [status |-> "error", message |-> msg]
    /\ UNCHANGED <<result, prevRun, apartVars>>

\* upsertVectors has returned (index.js:399-404).
AfterUpsert ==
    Return([filesProcessed |-> filesProcessed,
            chunksGenerated |-> Len(allChunks),
            chunksEmbedded |-> Len(embeddedChunks)])

\* runIngestion as it would be calling upsertVectors whatever embedChunks
\* returned
AfterEmbed_always(embedded) ==
    /\ pc' = "upsertVectors"
    /\ UNCHANGED endVars

\* embedChunks has returned `embedded` (index.js:396-413).
AfterEmbed(embedded) ==
    IF Len(embedded) > 0
    THEN /\ pc' = "upsertVectors"
         /\ UNCHANGED endVars
    ELSE Return([filesProcessed |-> filesProcessed,
                 chunksGenerated |-> Len(allChunks),
                 chunksEmbedded |-> 0,
                 status |-> "No chunks embedded"])

\* the for loop over the files has ended (index.js:390-421).
AfterFiles(chunks, processed) ==
    IF Len(chunks) > 0
    THEN /\ pc' = "embedChunks"
         /\ UNCHANGED endVars
    ELSE Return([filesProcessed |-> processed,
                 chunksGenerated |-> 0,
                 status |-> "No chunks generated"])

\* ---- getConfig and the clients (index.js:311-367) -----------------------------
ConfigLoaded ==
    /\ pc = "getConfig"
    /\ pc' = "listDriveFiles"
    /\ UNCHANGED <<listVars, fileVars, embedVars, upsertVars, endVars, log>>

\* a secret cannot be fetched, a required key is missing, or a client cannot
\* be built: runIngestion throws before its processing steps.
ConfigFails ==
    /\ pc = "getConfig"
    /\ \E msg \in {"Failed to load required secret",
                   "Missing required configuration keys",
                   "client initialization failed"} :
          Throw(msg)
    /\ UNCHANGED <<listVars, fileVars, embedVars, upsertVars, log>>

\* ---- getConfig and the validation of its result (index.js:30-104, 313-367) ----
\* str.toLowerCase() of one word of a secret's name (index.js:41)
ToLowerCase(word) ==
    CASE word = "VERTEX" -> "vertex"
      [] word = "AI" -> "ai"
      [] word = "INDEX" -> "index"
      [] word = "ID" -> "id"
      [] word = "ENDPOINT" -> "endpoint"
      [] word = "EMBEDDING" -> "embedding"
      [] word = "MODEL" -> "model"
      [] word = "NAME" -> "name"
      [] word = "GOOGLE" -> "google"
      [] word = "DRIVE" -> "drive"
      [] word = "FOLDER" -> "folder"
      [] word = "SERVICE" -> "service"
      [] word = "ACCOUNT" -> "account"
      [] word = "KEY" -> "key"

\* the replacement of index.js:42-44 on a lower-case word that follows an
\* underscore: the underscore goes and the first letter is made upper case
UpperFirst(word) ==
    CASE word = "ai" -> "Ai"
      [] word = "index" -> "Index"
      [] word = "id" -> "Id"
      [] word = "endpoint" -> "Endpoint"
      [] word = "embedding" -> "Embedding"
      [] word = "model" -> "Model"
      [] word = "name" -> "Name"
      [] word = "drive" -> "Drive"
      [] word = "folder" -> "Folder"
      [] word = "service" -> "Service"
      [] word = "account" -> "Account"
      [] word = "key" -> "Key"

\* toCamelCase (index.js:39-45): a key is the sequence of its words as written
toCamelCase(str) ==
    [k \in 1..Len(str) |-> IF k = 1 THEN ToLowerCase(str[k])
                           ELSE UpperFirst(ToLowerCase(str[k]))]

\* Secret Manager answers for a secret with "rejected" when the access fails,
\* else with the payload as a string.
\* JSON.parse of the payload of DRIVE_SERVICE_ACCOUNT_KEY (index.js:81):
\* a key file parses to an object, 'null' to null, the empty string throws
JSONparse(payload) ==
    CASE payload = "{key}" -> [ok |-> TRUE, value |-> "object"]
      [] payload = "null" -> [ok |-> TRUE, value |-> ""]
      [] OTHER -> [ok |-> FALSE, value |-> ""]

\* the secrets whose promise rejects (index.js:69-94): the access fails, or the
\* key of the service account is not JSON (the throw of l.84 is caught at l.90)
FailedSecrets(c) ==
    {name \in SecretNames :
        \/ c.secrets[name] = "rejected"
        \/ name = DRIVE_SERVICE_ACCOUNT_KEY /\ ~JSONparse(c.secrets[name]).ok}

\* the messages getConfig can throw with (index.js:55-57, 61-63, 92, 96)
GetConfigThrows(c) ==
    IF c.env.GCP_PROJECT_ID = "" THEN {"GCP_PROJECT_ID environment variable is required"}
    ELSE IF c.env.GCP_REGION = "" THEN {"GCP_REGION environment variable is required"}
    ELSE IF FailedSecrets(c) # {} THEN {"Failed to load required secret"}
    ELSE {}

\* loadedConfig as getConfig returns it (index.js:49, 58, 64, 81, 87, 103)
loadedConfig(c) ==
    [key \in {<<"gcp", "Project", "Id">>, <<"gcp", "Region">>,
               <<"drive", "Service", "Account", "Credentials">>}
             \cup {toCamelCase(name) : name \in SecretNames \ {DRIVE_SERVICE_ACCOUNT_KEY}} |->
        IF key = <<"gcp", "Project", "Id">> THEN c.env.GCP_PROJECT_ID
        ELSE IF key = <<"gcp", "Region">> THEN c.env.GCP_REGION
        ELSE IF key = <<"drive", "Service", "Account", "Credentials">>
             THEN JSONparse(c.secrets[DRIVE_SERVICE_ACCOUNT_KEY]).value
        ELSE LET name == CHOOSE n \in SecretNames : toCamelCase(n) = key
             IN  c.secrets[name]]

\* a validation that does not ask for the folder
requiredConfig_noFolder ==
    {<<"drive", "Service", "Account", "Credentials">>,
     <<"vertex", "Ai", "Index", "Id">>,
     <<"vertex", "Ai", "Index", "Endpoint", "Id">>,
     <<"gcp", "Project", "Id">>,
     <<"gcp", "Region">>,
     <<"vertex", "Ai", "Embedding", "Model", "Name">>}

\* requiredConfig (index.js:322-330)
requiredConfig ==
    {<<"drive", "Service", "Account", "Credentials">>,
     <<"google", "Drive", "Folder", "Id">>,
     <<"vertex", "Ai", "Index", "Id">>,
     <<"vertex", "Ai", "Index", "Endpoint", "Id">>,
     <<"gcp", "Project", "Id">>,
     <<"gcp", "Region">>,
     <<"vertex", "Ai", "Embedding", "Model", "Name">>}

\* missingConfig (index.js:331): the required keys that loadedConfig does not
\* have or has with an empty value
missingConfig(loaded) ==
    {key \in requiredConfig : key \notin DOMAIN loaded \/ loaded[key] = ""}

\* getConfig throws and runIngestion throws the same error (index.js:314-319)
GetConfigFails ==
    /\ pc = "getConfig"
    /\ \E msg \in GetConfigThrows(config) : Throw(msg)
    /\ UNCHANGED <<listVars, fileVars, embedVars, upsertVars, log>>

\* getConfig returns and a required key is missing (index.js:331-334)
ConfigKeysMissing ==
    /\ pc = "getConfig"
    /\ GetConfigThrows(config) = {}
    /\ missingConfig(loadedConfig(config)) # {}
    /\ Throw("Missing required configuration keys")
    /\ UNCHANGED <<listVars, fileVars, embedVars, upsertVars, log>>

\* the configuration passes and a client cannot be built (index.js:337-367)
ClientFails ==
    /\ pc = "getConfig"
    /\ GetConfigThrows(config) = {}
    /\ missingConfig(loadedConfig(config)) = {}
    /\ Throw("client initialization failed")
    /\ UNCHANGED <<listVars, fileVars, embedVars, upsertVars, log>>

\* the configuration passes and the clients are built: the processing steps
\* begin (index.js:369)
ConfigValid ==
    /\ pc = "getConfig"
    /\ GetConfigThrows(config) = {}
    /\ missingConfig(loadedConfig(config)) = {}
    /\ pc' = "listDriveFiles"
    /\ UNCHANGED <<listVars, fileVars, embedVars, upsertVars, endVars, log>>

\* ---- listDriveFiles (index.js:114-143) ----------------------------------------
\* the id of the last file listed so far
LastId == IF files = <<>> THEN 0 ELSE files[Len(files)].id

\* the listing as it would be with a query that does not name the mime types
Query_all(p) == p

\* the query of the listing (index.js:117-120): of the files of the folder,
\* the ones of a supported mime type are listed
Query(p) == SelectSeq(p, LAMBDA f : f.mimeType \in SUPPORTED_MIME_TYPES)

\* the next files of the folder, as many as a page may carry: fresh ids, in
\* order, after those the listing has gone through
PageFiles(n) ==
    { p \in UNION { [1..k -> [id : {0}, mimeType : MimeTypes]] : k \in 0..MaxPageFiles } :
        Len(p) + n <= MaxFiles }

Renumber(p, n) == [k \in 1..Len(p) |-> [id |-> n + k, mimeType |-> p[k].mimeType]]

\* listDriveFiles as it would be without its loop: the files of the first
\* page are returned, whether or not the page carries a nextPageToken
ListPageWith_firstPage(p, hasFiles, nextPageToken) ==
    /\ pc = "listDriveFiles"
    /\ listCalls < MaxPages
    /\ (~hasFiles) => p = <<>>
    /\ nextPageToken => listCalls + 1 < MaxPages
    /\ files' = files \o Query(Renumber(p, LastId))
    /\ listCalls' = listCalls + 1
    /\ IF files' = <<>>
       THEN AfterFiles(allChunks, filesProcessed)
       ELSE /\ pc' = "getFileContent"
            /\ UNCHANGED endVars
    /\ UNCHANGED <<fileVars, embedVars, upsertVars, log>>

\* one drive.files.list call answers with the page p of files (or without
\* a files field) and with or without a nextPageToken: the files are
\* appended; with a token the loop goes on, without one the files are
\* returned and the for loop over them starts (or, with no file, is over at
\* once).
ListPageWith(p, hasFiles, nextPageToken) ==
    /\ pc = "listDriveFiles"
    /\ listCalls < MaxPages
    /\ (~hasFiles) => p = <<>>
    /\ nextPageToken => listCalls + 1 < MaxPages
    /\ LET all == IF hasFiles
                  THEN files \o Query(Renumber(p, LastId))
                  ELSE files
       IN  /\ files' = all
           /\ listCalls' = listCalls + 1
           /\ IF nextPageToken
              THEN /\ pc' = "listDriveFiles"
                   /\ UNCHANGED endVars
              ELSE IF all = <<>>
                   THEN AfterFiles(allChunks, filesProcessed)
                   ELSE /\ pc' = "getFileContent"
                        /\ UNCHANGED endVars
    /\ UNCHANGED <<fileVars, embedVars, upsertVars, log>>

\* a list call of a run is answered
ListPage ==
    /\ \E p \in PageFiles(LastId), hasFiles \in BOOLEAN, nextPageToken \in BOOLEAN :
          ListPageWith(p, hasFiles, nextPageToken)
    /\ UNCHANGED pages

\* listDriveFiles as it would be with a catch that returns the files read so
\* far instead of throwing
ListPageFails_partial ==
    /\ pc = "listDriveFiles"
    /\ listCalls < MaxPages
    /\ listCalls' = listCalls + 1
    /\ log' = Append(log, [event |-> "listError", at |-> listCalls + 1])
    /\ IF files = <<>>
       THEN AfterFiles(allChunks, filesProcessed)
       ELSE /\ pc' = "getFileContent"
            /\ UNCHANGED endVars
    /\ UNCHANGED <<files, pages, fileVars, embedVars, upsertVars>>

\* a drive.files.list call fails: the catch logs it and throws
\* "Failed to list files"; runIngestion rethrows.
ListPageFails ==
    /\ pc = "listDriveFiles"
    /\ listCalls < MaxPages
    /\ listCalls' = listCalls + 1
    /\ log' = Append(log, [event |-> "listError", at |-> listCalls + 1])
    /\ Throw("Failed to list files")
    /\ UNCHANGED <<files, pages, fileVars, embedVars, upsertVars>>

\* ---- the for loop of runIngestion: getFileContent, splitText (index.js:378-389)
\* the loop as it would be leaving for the embedding stage with the first
\* chunks it has, before the files after that one are read
NextFile_early(chunks, processed) ==
    IF fileIdx < Len(files) /\ chunks = <<>>
    THEN /\ fileIdx' = fileIdx + 1
         /\ pc' = "getFileContent"
         /\ UNCHANGED endVars
    ELSE /\ fileIdx' = fileIdx + 1
         /\ AfterFiles(chunks, processed)

\* the loop moves to the next file, or ends after the last one
NextFile(chunks, processed) ==
    IF fileIdx < Len(files)
    THEN /\ fileIdx' = fileIdx + 1
         /\ pc' = "getFileContent"
         /\ UNCHANGED endVars
    ELSE /\ fileIdx' = fileIdx + 1
         /\ AfterFiles(chunks, processed)

\* runIngestion as it would be counting a file before looking at its content
FileContentNull_counted ==
    /\ pc = "getFileContent"
    /\ contentCalls' = Append(contentCalls, files[fileIdx].id)
    /\ log' = log \o <<[event |-> "contentError", at |-> files[fileIdx].id],
                       [event |-> "skipped", at |-> files[fileIdx].id]>>
    /\ contents' = Append(contents, Null)
    /\ filesProcessed' = filesProcessed + 1
    /\ NextFile(allChunks, filesProcessed + 1)
    /\ UNCHANGED <<allChunks, splitCalls>>
    /\ UNCHANGED <<listVars, embedVars, upsertVars>>

\* getFileContent as it would be with a catch that rethrows
FileContentNull_rethrow ==
    /\ pc = "getFileContent"
    /\ contentCalls' = Append(contentCalls, files[fileIdx].id)
    /\ log' = Append(log, [event |-> "contentError", at |-> files[fileIdx].id])
    /\ Throw("content error")
    /\ UNCHANGED <<fileIdx, allChunks, filesProcessed, contents, splitCalls>>
    /\ UNCHANGED <<listVars, embedVars, upsertVars>>

\* getFileContent returns null: the mime type is not a supported one (no
\* call is made), or the export / download / pdf parse throws and the catch
\* logs it. runIngestion warns that the file is skipped and goes on.
FileContentNull ==
    /\ pc = "getFileContent"
    /\ LET file == files[fileIdx]
       IN  IF file.mimeType \notin SUPPORTED_MIME_TYPES
           THEN /\ contentCalls' = contentCalls
                /\ log' = log \o <<[event |-> "unsupported", at |-> file.id],
                                   [event |-> "skipped", at |-> file.id]>>
           ELSE /\ contentCalls' = Append(contentCalls, file.id)
                /\ log' = log \o <<[event |-> "contentError", at |-> file.id],
                                   [event |-> "skipped", at |-> file.id]>>
    /\ contents' = Append(contents, Null)
    /\ NextFile(allChunks, filesProcessed)
    /\ UNCHANGED <<allChunks, filesProcessed, splitCalls>>
    /\ UNCHANGED <<listVars, embedVars, upsertVars>>

\* the for loop as it would be passing over an empty content without a
\* warning
FileContentText_emptyQuiet ==
    /\ pc = "getFileContent"
    /\ files[fileIdx].mimeType \in SUPPORTED_MIME_TYPES
    /\ \E len \in TextLens :
          LET file == files[fileIdx]
              content == TextOf(file.id, len)
              chunks == splitText(content, file)
          IN  /\ contentCalls' = Append(contentCalls, file.id)
              /\ contents' = Append(contents, Text(content))
              /\ log' = log
              /\ IF content # <<>>
                 THEN /\ splitCalls' = Append(splitCalls, file.id)
                      /\ allChunks' = allChunks \o chunks
                      /\ filesProcessed' = filesProcessed + 1
                 ELSE UNCHANGED <<allChunks, filesProcessed, splitCalls>>
              /\ NextFile(allChunks', filesProcessed')
    /\ UNCHANGED <<listVars, embedVars, upsertVars>>

\* what the for loop does with the content of a file (index.js:380-388): a
\* non-empty content is split and counted when it gives chunks; an empty
\* one ('' is falsy) takes the else branch and is warned about as skipped.
FileContentText ==
    /\ pc = "getFileContent"
    /\ files[fileIdx].mimeType \in SUPPORTED_MIME_TYPES
    /\ \E len \in TextLens :
          LET file == files[fileIdx]
              content == TextOf(file.id, len)
              chunks == splitText(content, file)
          IN  /\ contentCalls' = Append(contentCalls, file.id)
              /\ contents' = Append(contents, Text(content))
              /\ IF content # <<>>
                 THEN /\ splitCalls' = Append(splitCalls, file.id)
                      /\ log' = log
                      /\ IF Len(chunks) > 0
                         THEN /\ allChunks' = allChunks \o chunks
                              /\ filesProcessed' = filesProcessed + 1
                         ELSE UNCHANGED <<allChunks, filesProcessed>>
                 ELSE /\ log' = Append(log, [event |-> "skipped", at |-> file.id])
                      /\ UNCHANGED <<allChunks, filesProcessed, splitCalls>>
              /\ NextFile(allChunks', filesProcessed')
    /\ UNCHANGED <<listVars, embedVars, upsertVars>>

\* the splitter throws on a non-empty content: splitText is called inside
\* the try of runIngestion (index.js:373) but no catch of the loop, so the
\* error reaches the catch at index.js:422, which rethrows it.
FileSplitThrows ==
    /\ pc = "getFileContent"
    /\ files[fileIdx].mimeType \in SUPPORTED_MIME_TYPES
    /\ contentCalls' = Append(contentCalls, files[fileIdx].id)
    /\ \E len \in TextLens \ {0} :
          contents' = Append(contents, Text(TextOf(files[fileIdx].id, len)))
    /\ splitCalls' = Append(splitCalls, files[fileIdx].id)
    /\ Throw("splitter error")
    /\ UNCHANGED <<fileIdx, allChunks, filesProcessed, log>>
    /\ UNCHANGED <<listVars, embedVars, upsertVars>>

\* ---- embedChunks (index.js:236-268) ---------------------------------------------
\* what embedDocuments may answer for a batch of texts: a vector per text in
\* the order of the texts, or an answer one vector short or one too long
EmbedAnswers(batchTexts) ==
    LET good == EmbedDocuments(batchTexts)
    IN  {good, SubSeq(good, 1, Len(good) - 1), Append(good, Embedding(<<>>))}
            \cup (IF prevRun.n > 0
                  THEN {[i \in 1..Len(batchTexts) |-> Drifted(batchTexts[i])]}
                  ELSE {})

\* embedChunks as it would be without the length check: the chunks that
\* have a vector at their position are kept
EmbeddedOf_prefix(batch, batchEmbeddings) ==
    [k \in 1..Min(Len(batch), Len(batchEmbeddings)) |->
        [id |-> batch[k].id,
         embedding |-> batchEmbeddings[k],
         source |-> batch[k].source,
         pageContent |-> batch[k].pageContent]]

\* the records one batch adds to embeddedChunks (index.js:247-258): none when
\* the answer's length differs from the batch's (the throw of line 248 is
\* caught at line 260), else one per chunk with the vector at its position.
EmbeddedOf(batch, batchEmbeddings) ==
    IF Len(batchEmbeddings) # Len(batch)
    THEN <<>>
    ELSE [k \in 1..Len(batch) |->
             [id |-> batch[k].id,
              embedding |-> batchEmbeddings[k],
              source |-> batch[k].source,
              pageContent |-> batch[k].pageContent]]

\* the batch as it would be with a slice one chunk too long
EmbedBatch_tooLong == Slice(allChunks, embI, embI + EMBEDDING_BATCH_SIZE + 1)

EmbedBatch == Slice(allChunks, embI, embI + EMBEDDING_BATCH_SIZE)

EmbedBatchTexts == [k \in 1..Len(EmbedBatch) |-> EmbedBatch[k].pageContent]

\* the loop of embedChunks moves by one batch, and returns after the last
NextEmbedBatch(embedded, threw, answer) ==
    /\ embI' = embI + EMBEDDING_BATCH_SIZE
    /\ embeddedChunks' = embedded
    /\ embedCalls' = Append(embedCalls,
           [at |-> embI, texts |-> EmbedBatchTexts,
            threw |-> threw, answer |-> answer])
    /\ IF embI + EMBEDDING_BATCH_SIZE < Len(allChunks)
       THEN /\ pc' = "embedChunks"
            /\ UNCHANGED endVars
       ELSE AfterEmbed(embedded)

\* embedDocuments answers for the batch
EmbedBatchAnswered ==
    /\ pc = "embedChunks"
    /\ \E batchEmbeddings \in EmbedAnswers(EmbedBatchTexts) :
          /\ log' = IF Len(batchEmbeddings) # Len(EmbedBatch)
                    THEN Append(log, [event |-> "embedMismatch", at |-> embI])
                    ELSE log
          /\ NextEmbedBatch(embeddedChunks \o EmbeddedOf(EmbedBatch, batchEmbeddings),
                            FALSE, batchEmbeddings)
    /\ UNCHANGED <<listVars, fileVars, upsertVars>>

\* embedChunks as it would be with a catch that rethrows
EmbedBatchThrows_rethrow ==
    /\ pc = "embedChunks"
    /\ log' = Append(log, [event |-> "embedError", at |-> embI])
    /\ embedCalls' = Append(embedCalls,
           [at |-> embI, texts |-> EmbedBatchTexts,
            threw |-> TRUE, answer |-> <<>>])
    /\ Throw("embedding error")
    /\ UNCHANGED <<embI, embeddedChunks>>
    /\ UNCHANGED <<listVars, fileVars, upsertVars>>

\* embedChunks as it would be keeping the chunks of a batch whose call
\* threw, as records without a vector
EmbedBatchThrows_keeps ==
    /\ pc = "embedChunks"
    /\ log' = Append(log, [event |-> "embedError", at |-> embI])
    /\ NextEmbedBatch(embeddedChunks \o
            [k \in 1..Len(EmbedBatch) |->
                [id |-> EmbedBatch[k].id,
                 embedding |-> <<>>,
                 source |-> EmbedBatch[k].source,
                 pageContent |-> EmbedBatch[k].pageContent]],
          TRUE, <<>>)
    /\ UNCHANGED <<listVars, fileVars, upsertVars>>

\* embedChunks as it would be with a catch that logs nothing
EmbedBatchThrows_silent ==
    /\ pc = "embedChunks"
    /\ NextEmbedBatch(embeddedChunks, TRUE, <<>>)
    /\ UNCHANGED <<listVars, fileVars, upsertVars, log>>

\* embedDocuments throws for the batch: logged, the batch is skipped
EmbedBatchThrows ==
    /\ pc = "embedChunks"
    /\ log' = Append(log, [event |-> "embedError", at |-> embI])
    /\ NextEmbedBatch(embeddedChunks, TRUE, <<>>)
    /\ UNCHANGED <<listVars, fileVars, upsertVars>>

\* ---- upsertVectors (index.js:276-308) ---------------------------------------------
UpsertBatch == Slice(embeddedChunks, upI, upI + UPSERT_BATCH_SIZE)

\* the datapoints as they would be with the vectors of a batch given to
\* its chunks in the opposite order
Datapoints_misaligned(batch) ==
    [k \in 1..Len(batch) |->
        [datapointId |-> batch[k].id,
         featureVector |-> batch[Len(batch) + 1 - k].embedding]]

Datapoints(batch) ==
    [k \in 1..Len(batch) |->
        [datapointId |-> batch[k].id, featureVector |-> batch[k].embedding]]

\* the index as it would be if an upsert added records without replacing
\* the ones of the same id
Upserted_insertOnly(idx, datapoints) ==
    idx \cup {datapoints[k] : k \in 1..Len(datapoints)}

\* the index as it would be if an upsert left in it the datapoints of the
\* request and nothing else
Upserted_replaceAll(idx, datapoints) == {datapoints[k] : k \in 1..Len(datapoints)}

\* the index after an upsert of the datapoints: insert or overwrite by id
Upserted(idx, datapoints) ==
    LET ids == {datapoints[k].datapointId : k \in 1..Len(datapoints)}
    IN  {r \in idx : r.datapointId \notin ids}
            \cup {datapoints[k] : k \in 1..Len(datapoints)}

\* the loop of upsertVectors moves by one batch, and returns after the last
NextUpsertBatch ==
    /\ upI' = upI + UPSERT_BATCH_SIZE
    /\ IF upI + UPSERT_BATCH_SIZE < Len(embeddedChunks)
       THEN /\ pc' = "upsertVectors"
            /\ UNCHANGED endVars
       ELSE AfterUpsert

\* upsertDatapoints succeeds for the batch
UpsertBatchOk ==
    /\ pc = "upsertVectors"
    /\ upsertCalls' = Append(upsertCalls,
           [at |-> upI, datapoints |-> Datapoints(UpsertBatch), ok |-> TRUE])
    /\ index' = Upserted(index, Datapoints(UpsertBatch))
    /\ upsertedCount' = upsertedCount + Len(UpsertBatch)
    /\ NextUpsertBatch
    /\ UNCHANGED <<listVars, fileVars, embedVars, log>>

\* upsertVectors as it would be with a catch that rethrows
UpsertBatchThrows_rethrow ==
    /\ pc = "upsertVectors"
    /\ upsertCalls' = Append(upsertCalls,
           [at |-> upI, datapoints |-> Datapoints(UpsertBatch), ok |-> FALSE])
    /\ log' = Append(log, [event |-> "upsertError", at |-> upI])
    /\ Throw("upsert error")
    /\ UNCHANGED <<upI, upsertedCount, index>>
    /\ UNCHANGED <<listVars, fileVars, embedVars>>

\* upsertVectors as it would be with a catch that tries the same batch again
UpsertBatchThrows_retry ==
    /\ pc = "upsertVectors"
    /\ upsertCalls' = Append(upsertCalls,
           [at |-> upI, datapoints |-> Datapoints(UpsertBatch), ok |-> FALSE])
    /\ log' = Append(log, [event |-> "upsertError", at |-> upI])
    /\ UNCHANGED <<pc, upI, upsertedCount, index, endVars>>
    /\ UNCHANGED <<listVars, fileVars, embedVars>>

\* upsertDatapoints throws for the batch (the index may or may not have
\* taken the write): logged, the batch is skipped, the loop goes on
UpsertBatchThrows ==
    /\ pc = "upsertVectors"
    /\ upsertCalls' = Append(upsertCalls,
           [at |-> upI, datapoints |-> Datapoints(UpsertBatch), ok |-> FALSE])
    /\ \E taken \in BOOLEAN :
          index' = IF taken THEN Upserted(index, Datapoints(UpsertBatch)) ELSE index
    /\ log' = Append(log, [event |-> "upsertError", at |-> upI])
    /\ NextUpsertBatch
    /\ UNCHANGED upsertedCount
    /\ UNCHANGED <<listVars, fileVars, embedVars>>

\* ---- the run ---------------------------------------------------------------
Next ==
    \/ ConfigLoaded
    \/ ConfigFails
    \/ ListPage
    \/ ListPageFails
    \/ FileContentNull
    \/ FileContentText
    \/ FileSplitThrows
    \/ EmbedBatchAnswered
    \/ EmbedBatchThrows
    \/ UpsertBatchOk
    \/ UpsertBatchThrows

Spec == Init /\ [][Next]_vars

\* ---- a second run over the same folder --------------------------------------
\* the trigger is called again after a run that returned without a failure:
\* runIngestion starts anew (index.js:311), only the index keeps its records
Rerun ==
    /\ pc = "returned"
    /\ prevRun.n = 0
    /\ \A k \in 1..Len(log) : log[k].event = "skipped"
    /\ prevRun' = [n |-> 1, files |-> files, contents |-> contents, index |-> index]
    /\ pc' = "getConfig"
    /\ files' = <<>>
    /\ listCalls' = 0
    /\ pages' = <<>>
    /\ fileIdx' = 1
    /\ allChunks' = <<>>
    /\ filesProcessed' = 0
    /\ contentCalls' = <<>>
    /\ contents' = <<>>
    /\ splitCalls' = <<>>
    /\ embI' = 0
    /\ embeddedChunks' = <<>>
    /\ embedCalls' = <<>>
    /\ upI' = 0
    /\ upsertedCount' = 0
    /\ upsertCalls' = <<>>
    /\ result' = None
    /\ errorMessage' = None
    /\ httpStatus' = None
    /\ response' = [status |-> None]
    /\ log' = <<>>
    /\ UNCHANGED <<index, apartVars>>

\* the folder is unchanged: the second run is listed the files of the
\* first, and is given the contents the first was given
SameCorpus ==
    prevRun.n > 0 =>
        /\ Len(files) <= Len(prevRun.files)
        /\ files = SubSeq(prevRun.files, 1, Len(files))
        /\ (pc \in {"getFileContent", "embedChunks", "upsertVectors", "returned"}
              => files = prevRun.files)
        /\ Len(contents) <= Len(prevRun.contents)
        /\ contents = SubSeq(prevRun.contents, 1, Len(contents))

RunStep == Next /\ SameCorpus'

NextResync ==
    \/ RunStep
    \/ Rerun

ResyncSpec == Init /\ [][NextResync]_vars

\* ---- a run over an index that earlier runs have written ---------------------
\* What earlier runs left: the datapoints of the chunks of file 1 when its
\* text had MaxTextLen characters, and a datapoint of a file that is no
\* longer in the folder.
EarlierChunks == splitText(TextOf(1, MaxTextLen), [id |-> 1, mimeType |-> GDOC])

GoneId == ChunkId(MaxFiles + 1, 0)

EarlierIndex ==
    {[datapointId |-> EarlierChunks[k].id,
      featureVector |-> Embedding(EarlierChunks[k].pageContent)] :
        k \in 1..Len(EarlierChunks)}
      \cup {[datapointId |-> GoneId, featureVector |-> Embedding(<<>>)]}

LaterInit == InitRun /\ index = EarlierIndex /\ splitter = Idle /\ race = NoRace /\ retriever = Unloaded /\ generator = NoLlm /\ handler = NoClick /\ history = NoHistory /\ config = Unread

LaterSpec == LaterInit /\ [][Next]_vars

\* ---- runs that begin with the configuration (index.js:47-104, 311-367) ------
\* the environment of the function and the answers of Secret Manager
Configs ==
    {c \in [env : [GCP_PROJECT_ID : {"", "my-project"}, GCP_REGION : {"", "us-central1"}],
            secrets : [SecretNames -> {"rejected", "", "value", "{key}", "null"}]] :
        \A name \in SecretNames :
            IF name = DRIVE_SERVICE_ACCOUNT_KEY
            THEN c.secrets[name] \in {"rejected", "", "{key}", "null"}
            ELSE c.secrets[name] \in {"rejected", "", "value"}}

ConfigInit ==
    /\ InitRun
    /\ index = {}
    /\ splitter = Idle
    /\ race = NoRace
    /\ retriever = Unloaded
    /\ generator = NoLlm
    /\ handler = NoClick
    /\ history = NoHistory
    /\ config \in Configs

ConfigNext ==
    \/ GetConfigFails
    \/ ConfigKeysMissing
    \/ ClientFails
    \/ ConfigValid
    \/ ListPage
    \/ ListPageFails
    \/ FileContentNull
    \/ FileContentText
    \/ FileSplitThrows
    \/ EmbedBatchAnswered
    \/ EmbedBatchThrows
    \/ UpsertBatchOk
    \/ UpsertBatchThrows

ConfigSpec == ConfigInit /\ [][ConfigNext]_vars

\* ---- an embedding model of another dimension (index.js:245-258) ------------
\* embedDocuments answers with one vector per text, of a length that is not
\* the index's: the count check of index.js:247 passes
EmbedBatchOtherDimension ==
    /\ pc = "embedChunks"
    /\ LET batchEmbeddings == [i \in 1..Len(EmbedBatchTexts) |->
                                  OtherDimension(EmbedBatchTexts[i])]
       IN  NextEmbedBatch(embeddedChunks \o EmbeddedOf(EmbedBatch, batchEmbeddings),
                          FALSE, batchEmbeddings)
    /\ UNCHANGED <<listVars, fileVars, upsertVars, log>>

NextDimension == Next \/ EmbedBatchOtherDimension

DimensionSpec == Init /\ [][NextDimension]_vars

\* ---- two invocations at once (index.js:276-308, 429-448) --------------------
\* runbookIngestionHttp takes no lock and upsertVectors awaits each batch, so
\* the upsert loops of two invocations take turns in any order. Invocation A
\* listed the folder first, invocation B after it.
RaceRuns == {"A", "B"}

\* the text of a file after it was edited
Edited(text) == [k \in 1..Len(text) |-> text[k] + 100]

\* the lengths the texts of the folder's files may have, file by file
Corpora == [1..MaxFiles -> {1, MaxTextLen}]

\* allChunks of a run over the texts (index.js:378-385), from file f on
RECURSIVE ChunksFrom(_, _)
ChunksFrom(texts, f) ==
    IF f > Len(texts)
    THEN <<>>
    ELSE splitText(texts[f], [id |-> f, mimeType |-> GDOC]) \o ChunksFrom(texts, f + 1)

\* embeddedChunks of a run over the texts, every embedding batch answered
RaceEmbedded(texts) ==
    LET chunks == ChunksFrom(texts, 1)
    IN  EmbeddedOf(chunks, EmbedDocuments([k \in 1..Len(chunks) |-> chunks[k].pageContent]))

\* both invocations are about to enter upsertVectors; the folder was edited
\* between their listings, or was not
RaceInit ==
    /\ InitRun
    /\ index = {}
    /\ splitter = Idle
    /\ retriever = Unloaded
    /\ generator = NoLlm
    /\ handler = NoClick
    /\ history = NoHistory
    /\ config = Unread
    /\ \E la \in Corpora, lb \in Corpora, edited \in BOOLEAN :
          LET textsA == [f \in 1..MaxFiles |-> TextOf(f, la[f])]
              textsB == IF edited
                        THEN [f \in 1..MaxFiles |-> Edited(TextOf(f, lb[f]))]
                        ELSE textsA
          IN  race = [A |-> [embeddedChunks |-> RaceEmbedded(textsA), upI |-> 0],
                      B |-> [embeddedChunks |-> RaceEmbedded(textsB), upI |-> 0]]

RaceOther(r) == IF r = "A" THEN "B" ELSE "A"

\* the batch invocation r submits next (index.js:285)
RaceBatch(r) ==
    Slice(race[r].embeddedChunks, race[r].upI, race[r].upI + UPSERT_BATCH_SIZE)

\* the step as it would be under a lock held for the whole of upsertVectors:
\* no batch while the other invocation is between its first and last
RaceUpsert_locked(r) ==
    /\ race[r].upI < Len(race[r].embeddedChunks)
    /\ \/ race[RaceOther(r)].upI = 0
       \/ race[RaceOther(r)].upI >= Len(race[RaceOther(r)].embeddedChunks)
    /\ index' = Upserted(index, Datapoints(RaceBatch(r)))
    /\ race' = [race EXCEPT ![r].upI = @ + UPSERT_BATCH_SIZE]
    /\ UNCHANGED <<pc, listVars, fileVars, embedVars, upI, upsertedCount, upsertCalls, log>>
    /\ UNCHANGED <<result, errorMessage, httpStatus, response, prevRun, splitter, retriever, generator, handler, history, config>>

\* invocation r submits its next batch, and the index takes it
RaceUpsert(r) ==
    /\ race[r].upI < Len(race[r].embeddedChunks)
    /\ index' = Upserted(index, Datapoints(RaceBatch(r)))
    /\ race' = [race EXCEPT ![r].upI = @ + UPSERT_BATCH_SIZE]
    /\ UNCHANGED <<pc, listVars, fileVars, embedVars, upI, upsertedCount, upsertCalls, log>>
    /\ UNCHANGED <<result, errorMessage, httpStatus, response, prevRun, splitter, retriever, generator, handler, history, config>>

RaceNext == RaceUpsert("A") \/ RaceUpsert("B")

RaceSpec == RaceInit /\ [][RaceNext]_vars

\* ---- rag/retriever.js (retriever.js:1-75) -----------------------------------
\* the values of k the callers pass; 4 is the default of the parameter
RetrieverKs == {2, 4}

\* initializeRetriever(k) is called. With an instance cached it returns it
\* (retriever.js:16-21); without, it runs up to `await getConfig()`
\* (retriever.js:23-25) and the caller's control goes on.
RetrieverCalled ==
    /\ Len(retriever.calls) < MaxCalls
    /\ \E k \in RetrieverKs :
          retriever' =
              IF retriever.retrieverInstance # NoInstance
              THEN [retriever EXCEPT
                       !.now = @ + 1,
                       !.calls = Append(@, [k |-> k, started |-> retriever.now + 1,
                                            ended |-> retriever.now + 1,
                                            state |-> "returned",
                                            value |-> retriever.retrieverInstance,
                                            loaded |-> FALSE, built |-> FALSE])]
              ELSE [retriever EXCEPT
                       !.now = @ + 1,
                       !.configLoads = @ + 1,
                       !.calls = Append(@, [k |-> k, started |-> retriever.now + 1,
                                            ended |-> 0,
                                            state |-> "getConfig",
                                            value |-> NoInstance,
                                            loaded |-> TRUE, built |-> FALSE])]
    /\ UNCHANGED <<pc, listVars, fileVars, embedVars, upsertVars, log>>
    /\ UNCHANGED <<result, errorMessage, httpStatus, response, prevRun, splitter, race, generator, handler, history, config>>

\* getConfig resolves with every required key for call c, which builds the
\* embeddings client and the store, caches store.asRetriever(k) and returns
\* it (retriever.js:25-68)
RetrieverConfigLoaded(c) ==
    /\ retriever.calls[c].state = "getConfig"
    /\ retriever' =
          [retriever EXCEPT
              !.now = @ + 1,
              !.stores = @ + 1,
              !.retrieverInstance = [store |-> retriever.stores + 1,
                                     k |-> retriever.calls[c].k],
              !.calls[c] = [@ EXCEPT !.state = "returned",
                                     !.ended = retriever.now + 1,
                                     !.built = TRUE,
                                     !.value = [store |-> retriever.stores + 1,
                                                k |-> retriever.calls[c].k]]]
    /\ UNCHANGED <<pc, listVars, fileVars, embedVars, upsertVars, log>>
    /\ UNCHANGED <<result, errorMessage, httpStatus, response, prevRun, splitter, race, generator, handler, history, config>>

\* getConfig rejects for call c, or a required key is missing, or a
\* constructor throws: the call logs and rethrows (retriever.js:36-40, 69-72)
RetrieverFails(c) ==
    /\ retriever.calls[c].state = "getConfig"
    /\ retriever' =
          [retriever EXCEPT
              !.now = @ + 1,
              !.calls[c] = [@ EXCEPT !.state = "thrown",
                                     !.ended = retriever.now + 1]]
    /\ UNCHANGED <<pc, listVars, fileVars, embedVars, upsertVars, log>>
    /\ UNCHANGED <<result, errorMessage, httpStatus, response, prevRun, splitter, race, generator, handler, history, config>>

RetrieverNext ==
    \/ RetrieverCalled
    \/ \E c \in 1..Len(retriever.calls) : RetrieverConfigLoaded(c)
    \/ \E c \in 1..Len(retriever.calls) : RetrieverFails(c)

RetrieverSpec == Init /\ [][RetrieverNext]_vars

\* ---- rag/generator.js (part_008:40-183) -------------------------------------
\* the values generateAnswer is called with: `undefined`, `null`, the empty
\* string or array, and a value with content
Questions == {"undefined", "null", "", "question"}
DocumentLists == {"undefined", "null", "[]", "documents"}
SlackHistories == {"undefined", "", "history"}

\* !question
Falsy(question) == question \in {"undefined", "null", ""}

\* the validation as it would be without the check of slackHistory
InvalidInput_historyUnchecked(question, documents, slackHistory) ==
    \/ Falsy(question)
    \/ documents = "null"
    \/ documents = "undefined"

\* the condition of the if at part_008:136-141
InvalidInput(question, documents, slackHistory) ==
    \/ Falsy(question)
    \/ documents = "null"
    \/ documents = "undefined"
    \/ slackHistory = "undefined"

\* the strings generateAnswer returns itself, as the word they start with
\* and the rest (part_008:145, 178, 181)
INVALID_INPUT == <<"Error:", "Invalid input provided for answer generation.">>
EMPTY_RESPONSE == <<"LLM", "returned an empty response.">>
APOLOGY == <<"Sorry,", "I encountered an internal error while trying to generate an answer.">>

\* generateAnswer is called. On invalid input it returns at once
\* (part_008:136-146); otherwise it calls getLlmClient, which returns the
\* cached client or awaits getConfig (part_008:49-55).
GenerateAnswerCalled ==
    /\ Len(generator.calls) < MaxGenerations
    /\ \E question \in Questions, documents \in DocumentLists,
          slackHistory \in SlackHistories :
          LET call == [question |-> question, documents |-> documents,
                       slackHistory |-> slackHistory, state |-> "called",
                       value |-> <<>>, clientAsked |-> FALSE,
                       configLoaded |-> FALSE, invoked |-> FALSE,
                       outcome |-> "none"]
          IN  generator' =
                  [generator EXCEPT !.calls = Append(@,
                      IF InvalidInput(question, documents, slackHistory)
                      THEN [call EXCEPT !.state = "returned", !.value = INVALID_INPUT,
                                        !.outcome = "invalid input"]
                      ELSE IF generator.llm
                      THEN [call EXCEPT !.state = "getLlmClient", !.clientAsked = TRUE]
                      ELSE [call EXCEPT !.state = "getConfig", !.clientAsked = TRUE,
                                        !.configLoaded = TRUE])]
    /\ UNCHANGED <<pc, listVars, fileVars, embedVars, upsertVars, log>>
    /\ UNCHANGED <<result, errorMessage, httpStatus, response, prevRun, splitter, race, retriever, handler, history, config>>

\* getConfig resolves for call c with the keys the client needs: the client
\* is built and cached, the chain is built and invoked (part_008:55-79, 149-173)
LlmClientBuilt(c) ==
    /\ generator.calls[c].state = "getConfig"
    /\ generator' = [generator EXCEPT
           !.llm = TRUE,
           !.calls[c] = [@ EXCEPT !.state = "invoke", !.invoked = TRUE]]
    /\ UNCHANGED <<pc, listVars, fileVars, embedVars, upsertVars, log>>
    /\ UNCHANGED <<result, errorMessage, httpStatus, response, prevRun, splitter, race, retriever, handler, history, config>>

\* generateAnswer as it would be with the await of getLlmClient outside its
\* try: the error of getLlmClient rejects the promise of generateAnswer
LlmClientFails_uncaught(c) ==
    /\ generator.calls[c].state = "getConfig"
    /\ generator' = [generator EXCEPT
           !.calls[c] = [@ EXCEPT !.state = "rejected",
                                  !.outcome = "client failed"]]
    /\ UNCHANGED <<pc, listVars, fileVars, embedVars, upsertVars, log>>
    /\ UNCHANGED <<result, errorMessage, httpStatus, response, prevRun, splitter, race, retriever, handler, history, config>>

\* getConfig rejects for call c, or a key is missing, or the constructor
\* throws: getLlmClient rethrows, generateAnswer catches and returns the
\* apology (part_008:58-66, 80-83, 179-182). `llm` is assigned by the
\* constructor's return only (part_008:68) and stays as it was.
LlmClientFails(c) ==
    /\ generator.calls[c].state = "getConfig"
    /\ generator' = [generator EXCEPT
           !.calls[c] = [@ EXCEPT !.state = "returned", !.value = APOLOGY,
                                  !.outcome = "client failed"]]
    /\ UNCHANGED <<pc, listVars, fileVars, embedVars, upsertVars, log>>
    /\ UNCHANGED <<result, errorMessage, httpStatus, response, prevRun, splitter, race, retriever, handler, history, config>>

\* the await of getLlmClient ends for call c with the cached client: the
\* chain is built and invoked (part_008:49-51, 149-173)
LlmClientCached(c) ==
    /\ generator.calls[c].state = "getLlmClient"
    /\ generator' = [generator EXCEPT
           !.calls[c] = [@ EXCEPT !.state = "invoke", !.invoked = TRUE]]
    /\ UNCHANGED <<pc, listVars, fileVars, embedVars, upsertVars, log>>
    /\ UNCHANGED <<result, errorMessage, httpStatus, response, prevRun, splitter, race, retriever, handler, history, config>>

\* the chain answers call c, with a text or with the empty string
\* (part_008:169-178)
ChainAnswers(c) ==
    /\ generator.calls[c].state = "invoke"
    /\ \E answer \in {<<>>, <<"answer">>} :
          generator' = [generator EXCEPT
              !.calls[c] = [@ EXCEPT
                  !.state = "returned",
                  !.value = IF answer = <<>> THEN EMPTY_RESPONSE ELSE answer,
                  !.outcome = IF answer = <<>> THEN "empty answer" ELSE "answer"]]
    /\ UNCHANGED <<pc, listVars, fileVars, embedVars, upsertVars, log>>
    /\ UNCHANGED <<result, errorMessage, httpStatus, response, prevRun, splitter, race, retriever, handler, history, config>>

\* the chain rejects for call c with an error, which the catch logs
\* (part_008:179-182)
ChainFails(c) ==
    /\ generator.calls[c].state = "invoke"
    /\ generator' = [generator EXCEPT
           !.calls[c] = [@ EXCEPT !.state = "returned", !.value = APOLOGY,
                                  !.outcome = "chain failed"]]
    /\ UNCHANGED <<pc, listVars, fileVars, embedVars, upsertVars, log>>
    /\ UNCHANGED <<result, errorMessage, httpStatus, response, prevRun, splitter, race, retriever, handler, history, config>>

GeneratorNext ==
    \/ GenerateAnswerCalled
    \/ \E c \in 1..Len(generator.calls) : LlmClientBuilt(c)
    \/ \E c \in 1..Len(generator.calls) : LlmClientFails(c)
    \/ \E c \in 1..Len(generator.calls) : LlmClientCached(c)
    \/ \E c \in 1..Len(generator.calls) : ChainAnswers(c)
    \/ \E c \in 1..Len(generator.calls) : ChainFails(c)

GeneratorSpec == Init /\ [][GeneratorNext]_vars

\* ---- the "Log Incident" button (part_006:11-158) ----------------------------
\* body.user.id, body.channel.id and body.message.ts of the click, and
\* config.ticketingChannelId of the registration
USER == "U123USER"
ORIGINAL_CHANNEL == "C123CHANNEL"
MESSAGE_TS == "1234.5678"
TICKETING_CHANNEL == "C123TICKET"

\* the clicks: the message is a reply in a thread or is not; it has a
\* section block with text, blocks without one, or no blocks; it has a plain
\* text or has not
Clicks ==
    {[pc |-> "ack",
      body |-> [thread_ts |-> thread_ts, blocks |-> blocks, text |-> text],
      calls |-> <<>>, originalText |-> "", permalink |-> "", errors |-> <<>>] :
        thread_ts \in {None, "1200.0000"},
        blocks \in {None, "section", "divider"},
        text \in {"", "Bot response"}}

IncidentInit ==
    /\ InitRun
    /\ index = {}
    /\ splitter = Idle
    /\ race = NoRace
    /\ retriever = Unloaded
    /\ generator = NoLlm
    /\ handler \in Clicks
    /\ history = NoHistory
    /\ config = Unread

\* body.message.thread_ts || body.message.ts (part_006:27, 151)
ThreadTs == IF handler.body.thread_ts # None THEN handler.body.thread_ts ELSE MESSAGE_TS

\* botResponse (part_006:34-49): the text of the first section block, or
\* else the plain text of the message
BotResponse ==
    IF handler.body.blocks = "section" THEN "Response from bot" ELSE handler.body.text

\* a call on the Slack client, or of ack, and whether it was answered
SlackCall(api, channel, ts, blocks, text, ok) ==
    [api |-> api, channel |-> channel, ts |-> ts, blocks |-> blocks,
     text |-> text, ok |-> ok]

\* the handler goes from one await to the next, or into the catch of
\* part_006:144 when the call rejected
HandlerStep(call, next) ==
    /\ handler' = [handler EXCEPT
           !.calls = Append(@, call),
           !.pc = IF call.ok THEN next ELSE "catch",
           !.errors = IF call.ok THEN @ ELSE Append(@, call.api)]
    /\ UNCHANGED <<pc, listVars, fileVars, embedVars, upsertVars, log>>
    /\ UNCHANGED <<result, errorMessage, httpStatus, response, prevRun, splitter, race, retriever, generator, history, config>>

\* await ack() (part_006:15), outside the try: a rejection is the handler's
Ack ==
    /\ handler.pc = "ack"
    /\ \E ok \in BOOLEAN :
          /\ handler' = [handler EXCEPT
                 !.calls = Append(@, SlackCall("ack", None, None, <<>>, "", ok)),
                 !.pc = IF ok THEN "conversations.replies" ELSE "rejected"]
    /\ UNCHANGED <<pc, listVars, fileVars, embedVars, upsertVars, log>>
    /\ UNCHANGED <<result, errorMessage, httpStatus, response, prevRun, splitter, race, retriever, generator, history, config>>

\* client.conversations.replies (part_006:52-65); its first message has a
\* text, which becomes originalText, or has none
ConversationsReplies ==
    /\ handler.pc = "conversations.replies"
    /\ \E ok \in BOOLEAN, question \in {"", "Original question"} :
          /\ ok \/ question = ""
          /\ handler' = [handler EXCEPT
                 !.calls = Append(@, SlackCall("conversations.replies",
                                               ORIGINAL_CHANNEL, ThreadTs, <<>>, "", ok)),
                 !.originalText = question,
                 !.pc = IF ok THEN "chat.getPermalink" ELSE "catch",
                 !.errors = IF ok THEN @ ELSE Append(@, "conversations.replies")]
    /\ UNCHANGED <<pc, listVars, fileVars, embedVars, upsertVars, log>>
    /\ UNCHANGED <<result, errorMessage, httpStatus, response, prevRun, splitter, race, retriever, generator, history, config>>

\* client.chat.getPermalink (part_006:68-71)
GetPermalink ==
    /\ handler.pc = "chat.getPermalink"
    /\ \E ok \in BOOLEAN :
          /\ handler' = [handler EXCEPT
                 !.calls = Append(@, SlackCall("chat.getPermalink",
                                               ORIGINAL_CHANNEL, ThreadTs, <<>>, "", ok)),
                 !.permalink = IF ok THEN "permalink" ELSE "",
                 !.pc = IF ok THEN "postIncident" ELSE "catch",
                 !.errors = IF ok THEN @ ELSE Append(@, "chat.getPermalink")]
    /\ UNCHANGED <<pc, listVars, fileVars, embedVars, upsertVars, log>>
    /\ UNCHANGED <<result, errorMessage, httpStatus, response, prevRun, splitter, race, retriever, generator, history, config>>

\* the blocks of the incident message (part_006:74-125): header, who logged
\* it, the question, the answer, the link and the date
IncidentBlocks ==
    <<"header", USER, handler.originalText, BotResponse, handler.permalink, "context">>

\* the incident message as it would be if it were posted where the click was
IncidentMessage_inThread(ok) ==
    SlackCall("chat.postMessage", ORIGINAL_CHANNEL, None, IncidentBlocks, "", ok)

\* the first chat.postMessage (part_006:128-131): the blocks, to the
\* ticketing channel, not in a thread
IncidentMessage(ok) ==
    SlackCall("chat.postMessage", TICKETING_CHANNEL, None, IncidentBlocks, "", ok)

PostIncident ==
    /\ handler.pc = "postIncident"
    /\ \E ok \in BOOLEAN : HandlerStep(IncidentMessage(ok), "postConfirmation")

\* the second chat.postMessage (part_006:139-143): the thanks, in the thread
\* of the click
PostConfirmation ==
    /\ handler.pc = "postConfirmation"
    /\ \E ok \in BOOLEAN :
          HandlerStep(SlackCall("chat.postMessage", ORIGINAL_CHANNEL, ThreadTs,
                                <<>>, "Thanks", ok), "done")

\* the catch as it would be without the try around its chat.postMessage: a
\* rejection of the apology is the handler's
NotifyError_uncaught ==
    /\ handler.pc = "catch"
    /\ \E ok \in BOOLEAN :
          /\ handler' = [handler EXCEPT
                 !.calls = Append(@, SlackCall("chat.postMessage", ORIGINAL_CHANNEL,
                                               ThreadTs, <<>>, "Sorry", ok)),
                 !.pc = IF ok THEN "done" ELSE "rejected",
                 !.errors = IF ok THEN @ ELSE Append(@, "notify")]
    /\ UNCHANGED <<pc, listVars, fileVars, embedVars, upsertVars, log>>
    /\ UNCHANGED <<result, errorMessage, httpStatus, response, prevRun, splitter, race, retriever, generator, history, config>>

\* the chat.postMessage of the catch (part_006:144-157): the apology, in the
\* thread of the click; its own rejection is logged and nothing more
NotifyError ==
    /\ handler.pc = "catch"
    /\ \E ok \in BOOLEAN :
          /\ handler' = [handler EXCEPT
                 !.calls = Append(@, SlackCall("chat.postMessage", ORIGINAL_CHANNEL,
                                               ThreadTs, <<>>, "Sorry", ok)),
                 !.pc = "done",
                 !.errors = IF ok THEN @ ELSE Append(@, "notify")]
    /\ UNCHANGED <<pc, listVars, fileVars, embedVars, upsertVars, log>>
    /\ UNCHANGED <<result, errorMessage, httpStatus, response, prevRun, splitter, race, retriever, generator, history, config>>

IncidentNext ==
    \/ Ack
    \/ ConversationsReplies
    \/ GetPermalink
    \/ PostIncident
    \/ PostConfirmation
    \/ NotifyError

IncidentSpec == IncidentInit /\ [][IncidentNext]_vars

\* ---- formatSlackHistory (part_010:39-75) -------------------------------------
\* A string is the sequence of its characters. A user name, a timestamp and
\* each of the fixed texts count as one character, so lengths are in these
\* units.
NL == "\n"
BOT_USER_ID == "UBOT"
NO_HISTORY == <<"No relevant conversation history found.">>
TRUNCATED == <<"[... History truncated due to length ...]">>

\* the messages of a history: timestamps, who wrote them, and texts of one
\* line and of two
SlackMessages ==
    [ts : 1..MaxMessages, user : {BOT_USER_ID, "U123USER"},
     text : {<<"a">>, <<"b", NL, "c">>}]

\* the arrays of messages formatSlackHistory is called with: in any order,
\* no two of one timestamp (the caller keys them by ts)
Histories ==
    UNION {{m \in [1..n -> SlackMessages] :
               \A i \in 1..n, j \in 1..n : i # j => m[i].ts # m[j].ts} :
           n \in 0..MaxMessages}

\* messages.sort((a, b) => parseFloat(a.ts) - parseFloat(b.ts)) (part_010:45)
RECURSIVE SortByTs(_)
SortByTs(messages) ==
    IF messages = <<>>
    THEN <<>>
    ELSE LET i == CHOOSE i \in 1..Len(messages) :
                      \A j \in 1..Len(messages) : messages[i].ts <= messages[j].ts
         IN  <<messages[i]>> \o
             SortByTs(SubSeq(messages, 1, i - 1) \o SubSeq(messages, i + 1, Len(messages)))

\* new Date(parseFloat(msg.ts) * 1000).toLocaleString() (part_010:50)
ToLocaleString(ts) ==
    <<"1:00:00 AM", "2:00:00 AM", "3:00:00 AM", "4:00:00 AM", "5:00:00 AM",
      "6:00:00 AM">>[ts]

\* `${userName} [${timestamp}]: ${msg.text}` (part_010:49-51)
FormatMessage(msg) ==
    <<IF msg.user = BOT_USER_ID THEN "Bot" ELSE "<@U123USER>",
      " [", ToLocaleString(msg.ts), "]: ">> \o msg.text

\* lines.join('\n')
RECURSIVE Join(_)
Join(lines) ==
    IF lines = <<>>
    THEN <<>>
    ELSE IF Len(lines) = 1
    THEN lines[1]
    ELSE lines[1] \o <<NL>> \o Join(Tail(lines))

\* str.split('\n'): the lines of a string, one line for the empty string
RECURSIVE SplitLines(_, _)
SplitLines(str, line) ==
    IF str = <<>>
    THEN <<line>>
    ELSE IF Head(str) = NL
    THEN <<line>> \o SplitLines(Tail(str), <<>>)
    ELSE SplitLines(Tail(str), Append(line, Head(str)))

\* the while loop of part_010:63-66: the value of linesToRemove after it
RECURSIVE LinesToRemove(_, _, _, _)
LinesToRemove(lines, truncatedLength, maxLength, linesToRemove) ==
    IF truncatedLength > maxLength /\ linesToRemove < Len(lines)
    THEN LinesToRemove(lines, truncatedLength - (Len(lines[linesToRemove + 1]) + 1),
                       maxLength, linesToRemove + 1)
    ELSE linesToRemove

\* the history before any reduction (part_010:45-53)
FormattedHistory(messages) ==
    LET sorted == SortByTs(messages)
    IN  Join([i \in 1..Len(sorted) |-> FormatMessage(sorted[i])])

\* the lines formatSlackHistory keeps of an over-long history (part_010:59-69)
KeptLines(formattedHistory, maxLength) ==
    LET lines == SplitLines(formattedHistory, <<>>)
        linesToRemove == LinesToRemove(lines, Len(formattedHistory), maxLength, 0)
    IN  SubSeq(lines, linesToRemove + 1, Len(lines))

formatSlackHistory(messages, maxLength) ==
    IF messages = <<>>
    THEN NO_HISTORY
    ELSE LET formattedHistory == FormattedHistory(messages)
         IN  IF Len(formattedHistory) > maxLength
             THEN TRUNCATED \o <<NL>> \o Join(KeptLines(formattedHistory, maxLength))
             ELSE formattedHistory

HistoryInit ==
    /\ InitRun
    /\ index = {}
    /\ splitter = Idle
    /\ race = NoRace
    /\ retriever = Unloaded
    /\ generator = NoLlm
    /\ handler = NoClick
    /\ config = Unread
    /\ \E messages \in Histories, maxLength \in 0..MaxHistoryLength :
          history = [state |-> "called", messages |-> messages,
                     maxLength |-> maxLength, out |-> <<>>]

\* formatSlackHistory returns
HistoryFormatted ==
    /\ history.state = "called"
    /\ history' = [history EXCEPT
           !.state = "returned",
           !.out = formatSlackHistory(history.messages, history.maxLength)]
    /\ UNCHANGED <<pc, listVars, fileVars, embedVars, upsertVars, log>>
    /\ UNCHANGED <<result, errorMessage, httpStatus, response, prevRun, splitter, race, retriever, generator, handler, config>>

HistoryNext == HistoryFormatted

HistorySpec == HistoryInit /\ [][HistoryNext]_vars

\* ---- the listing on its own, its pages kept (index.js:114-143) -------------
\* a list call is answered, and the page it answered with is kept
ListPageRecorded ==
    \E p \in PageFiles(LastId), hasFiles \in BOOLEAN, nextPageToken \in BOOLEAN :
        /\ ListPageWith(p, hasFiles, nextPageToken)
        /\ pages' = Append(pages, [files |-> Query(Renumber(p, LastId)),
                                   hasFiles |-> hasFiles,
                                   nextPageToken |-> nextPageToken])

\* a run up to the end of the for loop over the files listDriveFiles returned
NextList ==
    \/ ConfigLoaded
    \/ ConfigFails
    \/ ListPageRecorded
    \/ ListPageFails
    \/ FileContentNull
    \/ FileContentText
    \/ FileSplitThrows

ListSpec == Init /\ [][NextList]_vars

\* ---- the splitter on its own (index.js:204-217) -----------------------------
Alphabet == <<"A", "B", "C", "D", "E", "F", "G", "H", "I", "J", "K", "L", "M">>

\* the texts without a separator, and the chunkSize and chunkOverlap (the
\* overlap smaller than the size, as the splitter demands) it is tried with
SplitInputs ==
    {[state |-> "called", text |-> SubSeq(Alphabet, 1, len),
      size |-> size, overlap |-> overlap, out |-> <<>>] :
        len \in 0..MaxSplitText, size \in 1..MaxSplitSize, overlap \in 0..(MaxSplitSize - 1)}

SplitInit ==
    /\ InitRun
    /\ index = {}
    /\ race = NoRace
    /\ retriever = Unloaded
    /\ generator = NoLlm
    /\ handler = NoClick
    /\ history = NoHistory
    /\ config = Unread
    /\ splitter \in {in \in SplitInputs : in.overlap < in.size}

\* createDocuments returns the documents of the text
SplitterReturns ==
    /\ splitter.state = "called"
    /\ splitter' = [splitter EXCEPT
           !.state = "returned",
           !.out = CreateDocuments(splitter.text, splitter.size, splitter.overlap)]
    /\ UNCHANGED <<pc, listVars, fileVars, embedVars, upsertVars, log>>
    /\ UNCHANGED <<result, errorMessage, httpStatus, response, prevRun, race, retriever, generator, handler, history, config>>

SplitNext == SplitterReturns

SplitSpec == SplitInit /\ [][SplitNext]_vars

\* ---- what the properties read off a state ------------------------------------
\* the places (file ids, batch offsets) the log has an entry of the event for
LoggedAt(event) == {log[k].at : k \in {j \in 1..Len(log) : log[j].event = event}}

CountLogged(event) == Cardinality({j \in 1..Len(log) : log[j].event = event})

FileIds == [k \in 1..Len(files) |-> files[k].id]

IsPrefix(s, t) == Len(s) <= Len(t) /\ s = SubSeq(t, 1, Len(s))

\* the run is past its file loop
PastFiles == pc \in {"embedChunks", "upsertVectors", "returned"}

\* ---- C1 ------------------------------------------------------------------------
\* C1: when a listing call has failed, on whichever page, the run has thrown
\* "Failed to list files", the trigger has answered 500, and no content,
\* splitter, embedding or upsert call was issued in the run.
C1_ListFailureIsFatal ==
    LoggedAt("listError") # {} =>
        /\ pc = "thrown"
        /\ errorMessage = "Failed to list files"
        /\ httpStatus = 500
        /\ contentCalls = <<>>
        /\ splitCalls = <<>>
        /\ embedCalls = <<>>
        /\ upsertCalls = <<>>
        /\ index = {}

\* the listing failed on a later page, after earlier pages had given files
C1_Witness ==
    /\ LoggedAt("listError") # {}
    /\ listCalls >= 2
    /\ Len(files) >= 1
    /\ httpStatus = 500

\* ---- C2 ------------------------------------------------------------------------
\* a step in which getFileContent failed for the file the loop is at
ContentErrorStep ==
    /\ pc = "getFileContent"
    /\ CountLogged("contentError")' = CountLogged("contentError") + 1

\* C2: a content failure of one file does not end the run: the step that logs
\* it records the file as skipped, adds no chunk, and leaves the loop at the
\* next file or past the loop, never thrown; and whenever the run is past the
\* loop every listed file was asked for its content, in listing order, and
\* every file not recorded as skipped was split, in that order, and chunks
\* there are have gone to the embedding stage.
C2_ContentFailureNotFatal ==
    /\ [][ContentErrorStep =>
            /\ pc' # "thrown"
            /\ fileIdx' = fileIdx + 1
            /\ files[fileIdx].id \in LoggedAt("skipped")'
            /\ allChunks' = allChunks
            /\ (fileIdx < Len(files) => pc' = "getFileContent")]_vars
    /\ [](IsPrefix(contentCalls, FileIds))
    /\ [](PastFiles =>
            /\ contentCalls = FileIds
            /\ splitCalls = SelectSeq(FileIds, LAMBDA f : f \notin LoggedAt("skipped"))
            /\ (allChunks # <<>> /\ pc = "returned" => embedCalls # <<>>))

\* the content of the first of three files failed, a later file was split,
\* and its chunks were given to the embedding service
C2_Witness ==
    /\ Len(files) = 3
    /\ files[1].id \in LoggedAt("contentError")
    /\ files[3].id \in {splitCalls[k] : k \in 1..Len(splitCalls)}
    /\ embedCalls # <<>>
    /\ pc = "returned"

\* ---- C3 ------------------------------------------------------------------------
RunEnded == pc \in {"returned", "thrown"}

\* the run has ended, the content of exactly one of its K >= 1 listed files
\* failed, and every other file was read and split without an error
OneContentFailure ==
    /\ RunEnded
    /\ Len(files) >= 1
    /\ contentCalls = FileIds
    /\ CountLogged("contentError") = 1
    /\ errorMessage # "splitter error"

ChunkSources == {allChunks[k].source : k \in 1..Len(allChunks)}

\* C3 as stated, the record of the error read off the log (the returned
\* summary has no list of errors): with one content failure among K files
\* the run returns, reports K-1 files processed and one file is recorded.
C3_Original ==
    OneContentFailure =>
        /\ pc = "returned"
        /\ result.filesProcessed = Len(files) - 1
        /\ CountLogged("skipped") = 1

\* C3 amended: with one content failure among K files, each of the other K-1
\* giving at least one chunk, the run returns with status 200, reports
\* filesProcessed = K-1, and the one file logged as skipped is the failed one.
C3_OneFailureOfK ==
    (/\ OneContentFailure
     /\ ChunkSources = {files[k].id : k \in 1..Len(files)} \ LoggedAt("contentError"))
    =>  /\ pc = "returned"
        /\ httpStatus = 200
        /\ result.filesProcessed = Len(files) - 1
        /\ CountLogged("skipped") = 1
        /\ LoggedAt("skipped") = LoggedAt("contentError")

\* three files, the second fails, the other two give chunks
C3_Witness ==
    /\ OneContentFailure
    /\ Len(files) = 3
    /\ LoggedAt("contentError") = {files[2].id}
    /\ ChunkSources = {files[1].id, files[3].id}
    /\ pc = "returned"

\* ---- C4 ------------------------------------------------------------------------
\* C4: a throw of the splitter on one file does not end the run as thrown.
C4_SplitFailureNotFatal ==
    errorMessage = "splitter error" => pc # "thrown" /\ httpStatus # 500

\* ---- C5 ------------------------------------------------------------------------
EmbedFailedAt == LoggedAt("embedError") \cup LoggedAt("embedMismatch")

\* the offset of the embedding batch that holds position j of allChunks
EmbedOffsetOf(j) == ((j - 1) \div EMBEDDING_BATCH_SIZE) * EMBEDDING_BATCH_SIZE

Positions(n) == [j \in 1..n |-> j]

IdsOf(chunks) == [k \in 1..Len(chunks) |-> chunks[k].id]

CeilDiv(n, b) == (n + b - 1) \div b

\* C5: the embedded output holds, in order, exactly the chunks of the batches
\* submitted so far whose call did not fail; a failed call never ends the
\* run as thrown; once the embedding stage is over every batch was
\* submitted; and no datapoint of an upsert is a chunk of a failed batch.
C5_EmbedFailureSkipsBatchOnly ==
    LET done == SelectSeq(Positions(Len(allChunks)),
                    LAMBDA j : /\ EmbedOffsetOf(j) < embI
                               /\ EmbedOffsetOf(j) \notin EmbedFailedAt)
    IN  /\ IdsOf(embeddedChunks) = [k \in 1..Len(done) |-> allChunks[done[k]].id]
        /\ (EmbedFailedAt # {} => ~(pc = "thrown"))
        /\ (pc \in {"upsertVectors", "returned"} /\ allChunks # <<>> =>
               {embedCalls[k].at : k \in 1..Len(embedCalls)}
                   = {EmbedOffsetOf(j) : j \in 1..Len(allChunks)})
        /\ \A k \in 1..Len(upsertCalls) : \A d \in 1..Len(upsertCalls[k].datapoints) :
               \A j \in 1..Len(allChunks) :
                   allChunks[j].id = upsertCalls[k].datapoints[d].datapointId
                       => EmbedOffsetOf(j) \notin EmbedFailedAt

\* the first batch's call threw, the second batch was embedded and upserted
C5_Witness ==
    /\ 0 \in LoggedAt("embedError")
    /\ Len(embedCalls) = 2
    /\ embeddedChunks # <<>>
    /\ upsertCalls # <<>>
    /\ pc = "returned"

\* ---- C6 ------------------------------------------------------------------------
\* C6: a call answered with as many vectors as texts gives every chunk of its
\* batch one embedded record, holding the vector at the chunk's position of
\* the answer; a call answered with another number of vectors gives no
\* chunk of its batch a record.
C6_EmbeddingAlignment ==
    \A c \in 1..Len(embedCalls) :
        LET call == embedCalls[c]
        IN  ~call.threw =>
              \A i \in 1..Len(call.texts) :
                LET chunk == allChunks[call.at + i]
                    recs == {k \in 1..Len(embeddedChunks) : embeddedChunks[k].id = chunk.id}
                IN  IF Len(call.answer) = Len(call.texts)
                    THEN /\ Cardinality(recs) = 1
                         /\ \A k \in recs :
                               /\ embeddedChunks[k].embedding = call.answer[i]
                               /\ embeddedChunks[k].pageContent = call.texts[i]
                    ELSE recs = {}

\* one batch of two or more chunks was embedded and another batch was
\* answered with the wrong number of vectors
C6_Witness ==
    /\ \E c \in 1..Len(embedCalls) :
          /\ ~embedCalls[c].threw
          /\ Len(embedCalls[c].answer) = Len(embedCalls[c].texts)
          /\ Len(embedCalls[c].texts) >= 2
    /\ \E c \in 1..Len(embedCalls) :
          /\ ~embedCalls[c].threw
          /\ Len(embedCalls[c].answer) # Len(embedCalls[c].texts)
          /\ Len(embedCalls[c].texts) >= 2

\* ---- C7 ------------------------------------------------------------------------
\* C7: the k-th embedding call carries the texts of the k-th consecutive slice
\* of at most EMBEDDING_BATCH_SIZE chunks, whatever the earlier calls
\* answered, and once the embedding stage is over ceil(N/B) calls were
\* issued for the N chunks (none when N = 0).
C7_EmbedBatchSizing ==
    LET N == Len(allChunks)
        B == EMBEDDING_BATCH_SIZE
    IN  /\ \A k \in 1..Len(embedCalls) :
              /\ embedCalls[k].at = (k - 1) * B
              /\ Len(embedCalls[k].texts) <= B
              /\ Len(embedCalls[k].texts) >= 1
              /\ embedCalls[k].texts =
                    [i \in 1..(Min(k * B, N) - (k - 1) * B) |->
                        allChunks[(k - 1) * B + i].pageContent]
        /\ Len(embedCalls) <= CeilDiv(N, B)
        /\ (pc \in {"upsertVectors", "returned"} => Len(embedCalls) = CeilDiv(N, B))

\* more chunks than one batch takes, the last batch not full, a call failed
C7_Witness ==
    /\ pc = "returned"
    /\ Len(allChunks) > EMBEDDING_BATCH_SIZE
    /\ Len(allChunks) % EMBEDDING_BATCH_SIZE # 0
    /\ Len(embedCalls) = 2
    /\ EmbedFailedAt # {}

\* ---- C8 ------------------------------------------------------------------------
\* C8: the k-th upsert call carries the datapoints of the k-th consecutive
\* slice of at most UPSERT_BATCH_SIZE embedded records; a run that returns
\* with M > 0 embedded records has issued ceil(M/U) calls, so every record
\* was submitted in exactly one call, whichever calls failed; and no run
\* with an upsert call has thrown.
C8_UpsertPartition ==
    LET M == Len(embeddedChunks)
        U == UPSERT_BATCH_SIZE
    IN  /\ \A k \in 1..Len(upsertCalls) :
              /\ upsertCalls[k].at = (k - 1) * U
              /\ Len(upsertCalls[k].datapoints) \in 1..U
              /\ upsertCalls[k].datapoints =
                    Datapoints(SubSeq(embeddedChunks, (k - 1) * U + 1, Min(k * U, M)))
        /\ (pc = "returned" /\ M > 0 => Len(upsertCalls) = CeilDiv(M, U))
        /\ (upsertCalls # <<>> => pc # "thrown")

\* a failed upsert call was followed by another batch's call
C8_Witness ==
    /\ pc = "returned"
    /\ Len(upsertCalls) >= 3
    /\ ~upsertCalls[1].ok
    /\ upsertCalls[2].ok
    /\ ~upsertCalls[3].ok

\* ---- C9 ------------------------------------------------------------------------
UpsertAttempts(at) == Cardinality({k \in 1..Len(upsertCalls) : upsertCalls[k].at = at})

RECURSIVE UpsertedByCalls(_)
UpsertedByCalls(calls) ==
    IF calls = <<>>
    THEN 0
    ELSE (IF calls[1].ok THEN Len(calls[1].datapoints) ELSE 0)
            + UpsertedByCalls(Tail(calls))

\* C9 as stated: in a run that has returned, a batch whose upsert call failed
\* was attempted again.
C9_Original ==
    pc = "returned" =>
        \A k \in 1..Len(upsertCalls) :
            ~upsertCalls[k].ok => UpsertAttempts(upsertCalls[k].at) >= 2

\* C9 amended: every batch is attempted exactly once; a failed attempt is
\* logged for its batch and is final, its vectors not counted as upserted,
\* and the loop goes on with the next batch.
C9_UpsertAttemptedOnce ==
    /\ \A k \in 1..Len(upsertCalls) : UpsertAttempts(upsertCalls[k].at) = 1
    /\ LoggedAt("upsertError")
          = {upsertCalls[k].at : k \in {j \in 1..Len(upsertCalls) : ~upsertCalls[j].ok}}
    /\ upsertedCount = UpsertedByCalls(upsertCalls)
    /\ \A k \in 1..Len(upsertCalls) :
          k < Len(upsertCalls) => upsertCalls[k + 1].at = upsertCalls[k].at + UPSERT_BATCH_SIZE

\* the first batch's call failed, the run went on to the second and returned
C9_Witness ==
    /\ pc = "returned"
    /\ Len(upsertCalls) >= 2
    /\ ~upsertCalls[1].ok
    /\ upsertCalls[2].ok
    /\ upsertedCount > 0

\* ---- C10 -----------------------------------------------------------------------
ListingSucceeded ==
    /\ listCalls > 0
    /\ LoggedAt("listError") = {}
    /\ pc # "listDriveFiles"

\* C10: a run whose listing succeeded is never thrown.
C10_ListedRunNeverFails == ListingSucceeded => pc # "thrown"

\* ---- C11 -----------------------------------------------------------------------
\* the stages of a run in their order; both ways a run ends come last
StageRank(p) ==
    CASE p = "getConfig" -> 0
      [] p = "listDriveFiles" -> 1
      [] p = "getFileContent" -> 2
      [] p = "embedChunks" -> 3
      [] p = "upsertVectors" -> 4
      [] OTHER -> 5

\* C11: a run moves through listing, per-file processing, embedding and
\* upserting in that order only and an ended run moves no more; a content
\* or splitter call is issued only once the listing has returned, and the
\* listed files do not change after it; an embedding call is issued only
\* once every listed file was looked at, and the chunks do not change after
\* it; an upsert call is issued only once every embedding batch was
\* attempted, and the embedded records do not change after it.
C11_StageOrder ==
    /\ [][StageRank(pc) <= StageRank(pc') /\ ~RunEnded]_vars
    /\ [](contentCalls # <<>> \/ splitCalls # <<>> =>
            StageRank(pc) >= 2 /\ listCalls >= 1)
    /\ [][StageRank(pc) >= 2 => UNCHANGED <<files, listCalls>>]_vars
    /\ [](embedCalls # <<>> =>
            StageRank(pc) >= 3 /\ fileIdx = Len(files) + 1)
    /\ [][StageRank(pc) >= 3 => UNCHANGED <<contentCalls, splitCalls, allChunks>>]_vars
    /\ [](upsertCalls # <<>> =>
            /\ StageRank(pc) >= 4
            /\ Len(embedCalls) = CeilDiv(Len(allChunks), EMBEDDING_BATCH_SIZE))
    /\ [][StageRank(pc) >= 4 => UNCHANGED <<embedCalls, embeddedChunks>>]_vars

\* a run over two or more files went through every stage, with two embedding
\* batches and two upsert batches
C11_Witness ==
    /\ pc = "returned"
    /\ Len(files) >= 2
    /\ contentCalls = FileIds
    /\ Len(embedCalls) = 2
    /\ Len(upsertCalls) >= 2

\* ---- C12 -----------------------------------------------------------------------
\* the failures of a run that do not end it: content, embedding and upsert
\* failures, as the run logged them
NonFatalFailures ==
    CountLogged("contentError") + CountLogged("embedError")
        + CountLogged("embedMismatch") + CountLogged("upsertError")

\* C12 as stated, for a run that got to its listing and whose splitter did
\* not throw, 'success' read as "completed" and 'error' as "failed": the
\* status is the completed one exactly when the listing succeeded and no
\* failure was recorded, "completed_with_errors" exactly when the listing
\* succeeded and a failure was recorded, the failed one exactly when the
\* listing failed.
C12_Original ==
    RunEnded /\ listCalls >= 1 /\ errorMessage # "splitter error" =>
        /\ (response.status \in {"completed", "success"}
               <=> ListingSucceeded /\ NonFatalFailures = 0)
        /\ (response.status = "completed_with_errors"
               <=> ListingSucceeded /\ NonFatalFailures > 0)
        /\ (response.status \in {"failed", "error"}
               <=> LoggedAt("listError") # {})

\* C12 amended: the response has no status before the run ended and one of
\* two afterwards: 'success' exactly when runIngestion returned, with the
\* returned summary as result and whatever failures were logged, 'error'
\* exactly when it threw; the returned summary has a status of its own only
\* when nothing was embedded, telling whether chunks were generated.
C12_SuccessOrError ==
    /\ (~RunEnded => response.status = None)
    /\ (RunEnded =>
          /\ response.status \in {"success", "error"}
          /\ (response.status = "success" <=> pc = "returned")
          /\ (response.status = "error" <=> pc = "thrown")
          /\ (pc = "thrown" => response.message = errorMessage)
          /\ (pc = "returned" =>
                /\ response.result = result
                /\ ListingSucceeded
                /\ ("status" \in DOMAIN result <=> embeddedChunks = <<>>)
                /\ (embeddedChunks = <<>> =>
                      result.status = IF allChunks = <<>>
                                      THEN "No chunks generated"
                                      ELSE "No chunks embedded")))

\* a run with a content failure, a failed embedding batch and a failed
\* upsert batch is answered 'success', its summary without a status
C12_Witness ==
    /\ pc = "returned"
    /\ CountLogged("contentError") >= 1
    /\ EmbedFailedAt # {}
    /\ CountLogged("upsertError") >= 1
    /\ response.status = "success"
    /\ "status" \notin DOMAIN result

\* ---- C13 -----------------------------------------------------------------------
\* the files whose content getFileContent failed to get
ContentFailedIds ==
    {files[k].id : k \in {j \in 1..Len(contents) :
        ~contents[j].ok /\ files[j].mimeType \in SUPPORTED_MIME_TYPES}}

EmbedThrewAt == {embedCalls[k].at : k \in {j \in 1..Len(embedCalls) : embedCalls[j].threw}}

EmbedMismatchAt ==
    {embedCalls[k].at : k \in {j \in 1..Len(embedCalls) :
        ~embedCalls[j].threw /\ Len(embedCalls[j].answer) # Len(embedCalls[j].texts)}}

UpsertFailedAt == {upsertCalls[k].at : k \in {j \in 1..Len(upsertCalls) : ~upsertCalls[j].ok}}

\* the failures that occurred in the run and did not end it
FailuresOccurred ==
    Cardinality(ContentFailedIds) + Cardinality(EmbedThrewAt)
        + Cardinality(EmbedMismatchAt) + Cardinality(UpsertFailedAt)

\* the entries of the errors list of the returned summary (none without one)
SummaryErrors ==
    IF pc = "returned" /\ "errors" \in DOMAIN result THEN Len(result.errors) ELSE 0

\* C13 as stated: the errors list of the returned summary has as many
\* entries as content, embedding and upsert failures occurred in the run.
C13_Original == pc = "returned" => SummaryErrors = FailuresOccurred

\* C13 amended: every content, embedding and upsert failure is logged once,
\* with the file or the batch offset it occurred at, so the log has as many
\* such entries as failures occurred; the returned summary has the fields
\* filesProcessed, chunksGenerated, chunksEmbedded and status and no list of
\* errors; a failure of the splitter is in the response's message, the run
\* being thrown.
C13_FailuresLogged ==
    /\ LoggedAt("contentError") = ContentFailedIds
    /\ LoggedAt("embedError") = EmbedThrewAt
    /\ LoggedAt("embedMismatch") = EmbedMismatchAt
    /\ LoggedAt("upsertError") = UpsertFailedAt
    /\ NonFatalFailures = FailuresOccurred
    /\ (pc = "returned" =>
          DOMAIN result \subseteq {"filesProcessed", "chunksGenerated",
                                   "chunksEmbedded", "status"})
    /\ (errorMessage = "splitter error" =>
          pc = "thrown" /\ response.message = "splitter error")

\* a returned run in which a content, an embedding and an upsert call failed
C13_Witness ==
    /\ pc = "returned"
    /\ ContentFailedIds # {}
    /\ EmbedThrewAt \cup EmbedMismatchAt # {}
    /\ UpsertFailedAt # {}
    /\ FailuresOccurred >= 3
    /\ SummaryErrors = 0

\* ---- C14 -----------------------------------------------------------------------
\* the run has ended, its chunks (EMBEDDING_BATCH_SIZE at most) went to the
\* embedding service in a single call, and that call threw
SingleBatchThrew ==
    /\ RunEnded
    /\ Len(embedCalls) = 1
    /\ embedCalls[1].threw
    /\ Len(embedCalls[1].texts) = Len(allChunks)

\* C14 as stated: when the single embedding batch of a run throws, the
\* summary has chunksEmbedded = 0, nothing is upserted and no upsert call is
\* made, the status is "completed_with_errors" and the errors list has one
\* entry.
C14_Original ==
    SingleBatchThrew /\ pc = "returned" =>
        /\ result.chunksEmbedded = 0
        /\ upsertedCount = 0
        /\ upsertCalls = <<>>
        /\ response.status = "completed_with_errors"
        /\ SummaryErrors = 1

\* C14 amended: when the single embedding batch of a run throws, the run
\* returns the summary {filesProcessed, chunksGenerated, chunksEmbedded: 0,
\* status: 'No chunks embedded'}, the trigger answers 200 'success', no
\* upsert call is made and the index is untouched, and the failure is in the
\* log, once, for the batch at offset 0.
C14_SingleBatchThrows ==
    SingleBatchThrew =>
        /\ pc = "returned"
        /\ result = [filesProcessed |-> filesProcessed,
                     chunksGenerated |-> Len(allChunks),
                     chunksEmbedded |-> 0,
                     status |-> "No chunks embedded"]
        /\ httpStatus = 200
        /\ response.status = "success"
        /\ upsertCalls = <<>>
        /\ upsertedCount = 0
        /\ index = {}
        /\ CountLogged("embedError") = 1
        /\ LoggedAt("embedError") = {0}

\* a full batch of chunks from two files, its one call threw
C14_Witness ==
    /\ SingleBatchThrew
    /\ Len(allChunks) = EMBEDDING_BATCH_SIZE
    /\ filesProcessed = 2
    /\ result.chunksEmbedded = 0

\* ---- C15 -----------------------------------------------------------------------
\* what runIngestion throws with
ConfigMessages ==
    {"Failed to load required secret", "Missing required configuration keys",
     "client initialization failed"}

\* C15 as stated: a run that ended was answered with a status other than
\* 200 exactly when its listing failed.
C15_Original == RunEnded => (httpStatus # 200 <=> LoggedAt("listError") # {})

\* C15 amended: the trigger answers once the run has ended, 500 exactly when
\* runIngestion threw, which it does on a failure of the configuration or
\* the clients, of the listing, or of the splitter, and before any embedding
\* or upsert call; every run that returned is answered 200, whatever
\* content, embedding or upsert failures it logged.
C15_Non200OnlyOnThrow ==
    /\ (~RunEnded => httpStatus = None)
    /\ (RunEnded =>
          /\ httpStatus \in {200, 500}
          /\ (httpStatus = 500 <=> pc = "thrown")
          /\ (httpStatus = 500 <=>
                errorMessage \in ConfigMessages
                    \cup {"Failed to list files", "splitter error"})
          /\ (httpStatus = 500 => embedCalls = <<>> /\ upsertCalls = <<>>)
          /\ (errorMessage \in ConfigMessages => listCalls = 0)
          /\ (errorMessage = "Failed to list files" <=> LoggedAt("listError") # {})
          /\ (pc = "returned" => httpStatus = 200 /\ errorMessage = None))

\* a run that never got to its listing was answered 500
C15_Witness ==
    /\ pc = "thrown"
    /\ errorMessage = "Missing required configuration keys"
    /\ listCalls = 0
    /\ LoggedAt("listError") = {}
    /\ httpStatus = 500

\* ---- C16 -----------------------------------------------------------------------
\* the position in files of the file with this id
FilePos(id) == CHOOSE k \in 1..Len(files) : files[k].id = id

\* the zero-based position of chunk k among the chunks of its own file
Ordinal(k) == Cardinality({j \in 1..(k - 1) : allChunks[j].source = allChunks[k].source})

\* C16: the chunks of a file stand together in the order the splitter gave
\* them; the chunk at zero-based position i among them is the i-th window
\* of the file's text for CHUNK_SIZE and CHUNK_OVERLAP and has the id made
\* of the file's id and i, and of nothing else: two chunks have the same id
\* exactly when they are of the same file at the same position.
C16_OrdinalsAndIds ==
    /\ \A k \in 1..Len(allChunks) :
          LET chunk == allChunks[k]
              text == contents[FilePos(chunk.source)].text
              windows == CreateDocuments(text, CHUNK_SIZE, CHUNK_OVERLAP)
          IN  /\ chunk.id = ChunkId(chunk.source, Ordinal(k))
              /\ Ordinal(k) < Len(windows)
              /\ chunk.pageContent = windows[Ordinal(k) + 1]
              /\ (k > 1 /\ Ordinal(k) > 0 => allChunks[k - 1].source = chunk.source)
    /\ \A j, k \in 1..Len(allChunks) :
          allChunks[j].id = allChunks[k].id
              <=> (allChunks[j].source = allChunks[k].source /\ Ordinal(j) = Ordinal(k))

\* two files gave chunks, one of them more than one
C16_Witness ==
    /\ Cardinality(ChunkSources) >= 2
    /\ \E k \in 1..Len(allChunks) : Ordinal(k) >= 1
    /\ pc = "returned"

\* ---- C17 -----------------------------------------------------------------------
DatapointIds(idx) == {r.datapointId : r \in idx}

\* an upsert call is answered, with datapoints the index holds already
UpsertOfExisting ==
    /\ pc = "upsertVectors"
    /\ Len(upsertCalls') = Len(upsertCalls) + 1
    /\ \A d \in 1..Len(Datapoints(UpsertBatch)) : Datapoints(UpsertBatch)[d] \in index

\* C17: throughout a second run over the folder of a first run without
\* failures, whichever of its calls fail and whatever vectors it is given,
\* the index holds the datapoint ids it held after the first run, one
\* datapoint per id, so as many datapoints; and an upsert of datapoints the
\* index holds already leaves the index as it was.
C17_IdempotentResync ==
    /\ [](prevRun.n > 0 =>
            /\ DatapointIds(index) = DatapointIds(prevRun.index)
            /\ Cardinality(index) = Cardinality(prevRun.index)
            /\ Cardinality(index) = Cardinality(DatapointIds(index)))
    /\ [][UpsertOfExisting => index' = index]_vars

\* the second run has returned, all its calls answered, two or more upsert
\* batches among them, one with the vectors of the first run and one with
\* other vectors
C17_Witness ==
    /\ prevRun.n = 1
    /\ pc = "returned"
    /\ log = <<>>
    /\ Len(upsertCalls) >= 2
    /\ upsertedCount = Len(allChunks)
    /\ index # prevRun.index
    /\ index \cap prevRun.index # {}

\* ---- C18 -----------------------------------------------------------------------
\* the positions in files of the files whose content was read and is empty
EmptyFiles == {k \in 1..Len(contents) : contents[k] = Text(<<>>)}

\* C18 as stated: a file whose content was read and is empty is not recorded
\* as skipped nor as failed, gives no chunk, and the run goes on after it.
C18_Original ==
    \A k \in EmptyFiles :
        /\ files[k].id \notin LoggedAt("skipped")
        /\ files[k].id \notin LoggedAt("contentError")
        /\ files[k].id \notin ChunkSources
        /\ fileIdx > k

\* C18 amended: a file whose content was read and is empty is warned about
\* as skipped, once, as a file whose content failed is, without an error
\* entry; it is not given to the splitter, gives no chunk, is not counted in
\* filesProcessed, which counts the files that gave chunks, and the loop
\* moves on after it without the run being thrown.
C18_EmptyIsSkipped ==
    /\ \A k \in EmptyFiles :
          /\ files[k].id \in LoggedAt("skipped")
          /\ Cardinality({j \in 1..Len(log) : log[j] = [event |-> "skipped", at |-> files[k].id]}) = 1
          /\ files[k].id \notin LoggedAt("contentError")
          /\ files[k].id \notin {splitCalls[j] : j \in 1..Len(splitCalls)}
          /\ files[k].id \notin ChunkSources
          /\ fileIdx > k
          /\ (k = Len(contents) => pc # "thrown")
    /\ filesProcessed = Cardinality(ChunkSources)

\* an empty file between two files that gave chunks, in a run that returned
C18_Witness ==
    /\ pc = "returned"
    /\ Len(files) = 3
    /\ EmptyFiles = {2}
    /\ ChunkSources = {files[1].id, files[3].id}
    /\ result.filesProcessed = 2

\* ---- C19 -----------------------------------------------------------------------
\* the files of the folder the listing went past without listing them: the
\* files of an unsupported mime type
UnsupportedIds == (1..LastId) \ {files[k].id : k \in 1..Len(files)}

\* the files the run recorded as skipped, in its log or in its summary
SkippedRecorded ==
    LoggedAt("skipped") \cup LoggedAt("unsupported")
        \cup (IF pc = "returned" /\ "documentsSkipped" \in DOMAIN result
              THEN {result.documentsSkipped[k].id : k \in 1..Len(result.documentsSkipped)}
              ELSE {})

\* C19 as stated, the record read off the summary or the log: no download
\* call is made for a file of an unsupported type, and once the run has
\* returned the file is recorded as skipped.
C19_Original ==
    \A d \in UnsupportedIds :
        /\ d \notin {contentCalls[k] : k \in 1..Len(contentCalls)}
        /\ (pc = "returned" => d \in SkippedRecorded)

\* C19 amended: a file of an unsupported type is left out by the query of
\* the listing, so every listed file is of a supported type and the type
\* check of getFileContent never fires; no download call is made for the
\* file, it gives no chunk, nothing is recorded of it in the log or in the
\* summary, and the run processes every listed file as it would without it.
C19_UnsupportedFilteredOut ==
    /\ \A k \in 1..Len(files) : files[k].mimeType \in SUPPORTED_MIME_TYPES
    /\ LoggedAt("unsupported") = {}
    /\ \A d \in UnsupportedIds :
          /\ d \notin {contentCalls[k] : k \in 1..Len(contentCalls)}
          /\ d \notin ChunkSources
          /\ d \notin SkippedRecorded \cup LoggedAt("contentError")
    /\ (pc = "returned" => "documentsSkipped" \notin DOMAIN result)
    /\ (PastFiles => contentCalls = FileIds)

\* the folder's second file is of an unsupported type; the files before and
\* after it were read and the run returned
C19_Witness ==
    /\ pc = "returned"
    /\ FileIds = <<1, 3>>
    /\ UnsupportedIds = {2}
    /\ contentCalls = <<1, 3>>

\* ---- C20 -----------------------------------------------------------------------
\* the splitter has returned: every chunk has chunkSize characters at most,
\* and of two chunks that follow each other the second begins with the last
\* chunkOverlap characters of the first
HardCut ==
    LET out == splitter.out
    IN  /\ \A i \in 1..Len(out) : Len(out[i]) \in 1..splitter.size
        /\ \A i \in 1..(Len(out) - 1) :
              /\ Len(out[i]) = splitter.size
              /\ Len(out[i + 1]) > splitter.overlap
              /\ SubSeq(out[i], splitter.size - splitter.overlap + 1, splitter.size)
                    = SubSeq(out[i + 1], 1, splitter.overlap)

\* the splitter was called on "ABCDEFGHIJ" with chunkSize 4, chunkOverlap 1
ScenarioA ==
    /\ splitter.state = "returned"
    /\ splitter.text = SubSeq(Alphabet, 1, 10)
    /\ splitter.size = 4
    /\ splitter.overlap = 1

\* C20 as stated: the chunks of a text without separators are windows of
\* chunkSize at most, each beginning with the last chunkOverlap characters
\* of the one before; "ABCDEFGHIJ" with chunkSize 4 and chunkOverlap 1
\* gives 4 chunks, beginning ABCD, DEFG, GHIJ.
C20_Original ==
    splitter.state = "returned" =>
        /\ HardCut
        /\ (ScenarioA =>
              /\ Len(splitter.out) = 4
              /\ SubSeq(splitter.out, 1, 3)
                    = << <<"A", "B", "C", "D">>, <<"D", "E", "F", "G">>,
                         <<"G", "H", "I", "J">> >>)

\* the chunks laid end to end, each without the characters it shares with
\* the one after
RECURSIVE Unlapped(_, _)
Unlapped(out, overlap) ==
    IF out = <<>>
    THEN <<>>
    ELSE IF Len(out) = 1
         THEN out[1]
         ELSE SubSeq(out[1], 1, Len(out[1]) - overlap)
                 \o Unlapped(Tail(out), overlap)

\* C20 amended: the chunks of a text without separators are windows of
\* chunkSize at most, each beginning with the last chunkOverlap characters
\* of the one before and adding a character or more, that cover the text
\* from its first character to its last; "ABCDEFGHIJ" with chunkSize 4 and
\* chunkOverlap 1 gives the 3 chunks ABCD, DEFG, GHIJ.
C20_HardCutWindows ==
    splitter.state = "returned" =>
        /\ HardCut
        /\ Unlapped(splitter.out, splitter.overlap) = splitter.text
        /\ (ScenarioA =>
              splitter.out = << <<"A", "B", "C", "D">>, <<"D", "E", "F", "G">>,
                                <<"G", "H", "I", "J">> >>)

\* the splitter has returned the chunks of "ABCDEFGHIJ" for 4 and 1
C20_Witness == ScenarioA /\ Len(splitter.out) = 3

\* ---- C21 -----------------------------------------------------------------------
\* the splitter has returned from a call on a text that is not empty and
\* has chunkSize characters at most
ShortText ==
    /\ splitter.state = "returned"
    /\ Len(splitter.text) >= 1
    /\ Len(splitter.text) <= splitter.size

RECURSIVE Flatten(_)
Flatten(ps) == IF ps = <<>> THEN <<>> ELSE ps[1].files \o Flatten(Tail(ps))

\* C22: every list call that was answered gave one page; every page but the
\* last carried a nextPageToken, and the listing has returned exactly when
\* the last page carried none; the files listed are the files of the pages
\* in page order, each once, and stay so while the run reads them; and the
\* loop cannot go on for ever: a list call
\* is one page further in the chain of pages, which has MaxPages at most,
\* and a listing that has not returned has its next call to make.
C22_Pagination ==
    /\ [](files = Flatten(pages))
    /\ [](\A j, k \in 1..Len(files) : j < k => files[j].id < files[k].id)
    /\ [](Len(pages) = listCalls - CountLogged("listError"))
    /\ [](\A k \in 1..(Len(pages) - 1) : pages[k].nextPageToken)
    /\ [](pages # <<>> /\ LoggedAt("listError") = {} =>
            (pages[Len(pages)].nextPageToken <=> pc = "listDriveFiles"))
    /\ [](pages = <<>> /\ LoggedAt("listError") = {} =>
            pc \in {"getConfig", "listDriveFiles", "thrown"} /\ files = <<>>)
    /\ [][pc = "listDriveFiles" => listCalls' = listCalls + 1]_vars
    /\ [][pc \notin {"getConfig", "listDriveFiles"} => UNCHANGED <<files, pages>>]_vars
    /\ [](listCalls <= MaxPages)
    /\ [](pc = "listDriveFiles" => listCalls < MaxPages /\ ENABLED ListPageRecorded)

\* two pages with files, the first with a token, were read and the listing
\* returned the files of both
C22_Witness ==
    /\ Len(pages) = 2
    /\ pages[1].files # <<>>
    /\ pages[2].files # <<>>
    /\ Len(files) = 3
    /\ pages[1].nextPageToken
    /\ contentCalls = FileIds

\* ---- C23 -----------------------------------------------------------------------
\* the ids of the datapoints the run has submitted in its upsert calls
SubmittedIds ==
    UNION {{upsertCalls[k].datapoints[d].datapointId :
               d \in 1..Len(upsertCalls[k].datapoints)} : k \in 1..Len(upsertCalls)}

\* the chunks file 1 has in this run
ChunksOfFirst == Cardinality({k \in 1..Len(allChunks) : allChunks[k].source = 1})

RaceAll(idx, r) == Upserted(idx, Datapoints(race[r].embeddedChunks))

\* the index after the two runs one after the other, either way round
SerialAB == RaceAll(RaceAll({}, "A"), "B")
SerialBA == RaceAll(RaceAll({}, "B"), "A")

RaceDone == \A r \in RaceRuns : race[r].upI >= Len(race[r].embeddedChunks)

RaceRecords(r) ==
    {Datapoints(race[r].embeddedChunks)[k] : k \in 1..Len(race[r].embeddedChunks)}

\* C24: nothing keeps two invocations apart: an invocation with a batch left
\* can submit it wherever the other one is in its own loop. The index holds
\* records of the two runs only, and once both are through, one record for
\* every id either of them submitted; when the folder was not edited between
\* the two listings that is what either serial order gives.
C24_RunsRace ==
    /\ \A r \in RaceRuns :
          race[r].upI < Len(race[r].embeddedChunks) => ENABLED RaceUpsert(r)
    /\ index \subseteq RaceRecords("A") \cup RaceRecords("B")
    /\ RaceDone =>
          /\ DatapointIds(index) = DatapointIds(RaceRecords("A") \cup RaceRecords("B"))
          /\ Cardinality(index) = Cardinality(DatapointIds(index))
          /\ race.A.embeddedChunks = race.B.embeddedChunks =>
                 index = SerialAB /\ index = SerialBA

\* both runs are through, the folder was edited between their listings, and
\* the index is neither what A then B nor what B then A would have left: it
\* has a record only A submitted and a record only B submitted for ids that
\* both submitted
C24_Witness ==
    /\ RaceDone
    /\ index # SerialAB
    /\ index # SerialBA
    /\ \E a \in index \cap RaceRecords("A"), b \in index \cap RaceRecords("B") :
          /\ a.datapointId \in DatapointIds(RaceRecords("B"))
          /\ b.datapointId \in DatapointIds(RaceRecords("A"))
          /\ a \notin RaceRecords("B")
          /\ b \notin RaceRecords("A")

\* C25: every datapoint of every upsert request has a vector of the
\* index's dimension, and so has every record of the index.
C25_DimensionChecked ==
    /\ \A c \in 1..Len(upsertCalls) :
          \A k \in 1..Len(upsertCalls[c].datapoints) :
              Len(upsertCalls[c].datapoints[k].featureVector) = Dimension
    /\ \A r \in index : Len(r.featureVector) = Dimension

\* C26: a call that started after another call had returned an instance
\* returns that same instance, and neither loads the configuration nor
\* builds a store, whatever its k.
C26_CachedAfterSuccess ==
    \A a \in 1..Len(retriever.calls), b \in 1..Len(retriever.calls) :
        /\ retriever.calls[a].state = "returned"
        /\ retriever.calls[b].started > retriever.calls[a].ended
        => /\ retriever.calls[b].state = "returned"
           /\ retriever.calls[b].value = retriever.calls[a].value
           /\ ~retriever.calls[b].loaded
           /\ ~retriever.calls[b].built

\* the words of a returned string
Words(value) == {value[i] : i \in 1..Len(value)}

\* C27: a call whose question is missing or empty, or whose documents are
\* null or undefined, or whose slackHistory is undefined, has returned as
\* soon as it was made, with a string that has 'Error:' in it, without a
\* call of getLlmClient, a load of the configuration or an invocation of
\* the chain; and it left the cached client as it was.
C27_InvalidInputReturnsError ==
    /\ \A c \in 1..Len(generator.calls) :
          LET call == generator.calls[c]
          IN  \/ Falsy(call.question)
              \/ call.documents \in {"null", "undefined"}
              \/ call.slackHistory = "undefined"
              => /\ call.state = "returned"
                 /\ "Error:" \in Words(call.value)
                 /\ ~call.clientAsked
                 /\ ~call.configLoaded
                 /\ ~call.invoked
    /\ generator.llm =>
          \E c \in 1..Len(generator.calls) :
              /\ generator.calls[c].invoked
              /\ ~Falsy(generator.calls[c].question)
              /\ generator.calls[c].documents \notin {"null", "undefined"}
              /\ generator.calls[c].slackHistory # "undefined"

\* a call with a question and documents but an undefined slackHistory has
\* returned the error string, next to a call with valid input that has
\* invoked the chain
C27_Witness ==
    /\ Len(generator.calls) = 2
    /\ generator.calls[1].question = "question"
    /\ generator.calls[1].documents = "[]"
    /\ generator.calls[1].slackHistory = ""
    /\ generator.calls[1].invoked
    /\ generator.calls[2].question = "question"
    /\ generator.calls[2].documents = "documents"
    /\ generator.calls[2].slackHistory = "undefined"
    /\ generator.calls[2].state = "returned"
    /\ generator.calls[2].value = INVALID_INPUT

\* every call the handler has made was answered
AllCallsOk == \A c \in 1..Len(handler.calls) : handler.calls[c].ok

\* the api of the calls made, in their order
Apis == [c \in 1..Len(handler.calls) |-> handler.calls[c].api]

\* C28: as long as every call succeeds the calls of the handler are, in this
\* order, ack, conversations.replies and chat.getPermalink on the thread of
\* the click, chat.postMessage of the incident blocks to the ticketing
\* channel, and chat.postMessage of the confirmation to the thread of the
\* click; when the handler is through they are all five, and chat.postMessage
\* was called twice.
C28_LogIncidentOrder ==
    AllCallsOk =>
        /\ IsPrefix(Apis, <<"ack", "conversations.replies", "chat.getPermalink",
                            "chat.postMessage", "chat.postMessage">>)
        /\ handler.pc = "done" => Len(handler.calls) = 5
        /\ handler.pc \notin {"catch", "rejected"}
        /\ Len(handler.calls) >= 2 =>
              /\ handler.calls[2].channel = ORIGINAL_CHANNEL
              /\ handler.calls[2].ts = ThreadTs
        /\ Len(handler.calls) >= 3 =>
              /\ handler.calls[3].channel = ORIGINAL_CHANNEL
              /\ handler.calls[3].ts = ThreadTs
        /\ Len(handler.calls) >= 4 =>
              /\ handler.calls[4].channel = TICKETING_CHANNEL
              /\ handler.calls[4].blocks # <<>>
              /\ handler.calls[4].ts = None
        /\ Len(handler.calls) >= 5 =>
              /\ handler.calls[5].channel = ORIGINAL_CHANNEL
              /\ handler.calls[5].ts = ThreadTs
              /\ handler.calls[5].blocks = <<>>
              /\ handler.calls[5].text = "Thanks"

\* a click on a reply in a thread went through with every call answered:
\* the incident with the question and the answer is in the ticketing
\* channel and the thanks in the thread
C28_Witness ==
    /\ handler.pc = "done"
    /\ AllCallsOk
    /\ handler.body.thread_ts # None
    /\ Len(handler.calls) = 5
    /\ handler.calls[4] = SlackCall("chat.postMessage", TICKETING_CHANNEL, None,
           <<"header", USER, "Original question", "Response from bot",
             "permalink", "context">>, "", TRUE)
    /\ handler.calls[5].text = "Thanks"

\* the lines of the history in the order of time, none removed
ChronologicalLines == SplitLines(FormattedHistory(history.messages), <<>>)

\* the last n lines of the chronological history, joined
Recent(n) ==
    Join(SubSeq(ChronologicalLines, Len(ChronologicalLines) - n + 1,
                Len(ChronologicalLines)))

\* the returned history is the marker and the n most recent lines
KeepsRecent(n) == history.out = TRUNCATED \o <<NL>> \o Recent(n)

\* C29: when the formatted history is longer than maxLength, the returned
\* history is the marker followed by the most recent lines of the
\* chronological history: as many of them as fit in maxLength and no more,
\* the oldest removed; and the returned history is no longer than maxLength.
C29_HistoryWithinMaxLength ==
    /\ history.state = "returned"
    /\ Len(FormattedHistory(history.messages)) > history.maxLength
    => /\ \E n \in 0..(Len(ChronologicalLines) - 1) :
             /\ KeepsRecent(n)
             /\ Len(Recent(n)) <= history.maxLength
             /\ Len(Recent(n + 1)) > history.maxLength
       /\ Len(history.out) <= history.maxLength

\* the datapoints of the upsert requests from the k-th on, in their order
RECURSIVE SubmittedFrom(_)
SubmittedFrom(k) ==
    IF k > Len(upsertCalls)
    THEN <<>>
    ELSE upsertCalls[k].datapoints \o SubmittedFrom(k + 1)

\* the positions in allChunks of the chunks with the id
PositionsOfId(id) == {j \in 1..Len(allChunks) : allChunks[j].id = id}

\* the embedding calls made for the batch that holds position j of allChunks
EmbedCallsOf(j) ==
    {c \in 1..Len(embedCalls) : embedCalls[c].at = EmbedOffsetOf(j)}

\* C30: every datapoint of every upsert request has the id of exactly one
\* chunk of this run; the one embedding call made for that chunk's batch did
\* not throw and was answered with one vector per text, and the datapoint's
\* vector is the one at the chunk's position of that answer; the datapoints
\* are submitted in the order of their chunks in allChunks, none twice.
C30_SubmittedAreEmbedded ==
    LET submitted == SubmittedFrom(1)
    IN  /\ \A p \in 1..Len(submitted) :
              /\ Cardinality(PositionsOfId(submitted[p].datapointId)) = 1
              /\ \A j \in PositionsOfId(submitted[p].datapointId) :
                    /\ Cardinality(EmbedCallsOf(j)) = 1
                    /\ EmbedOffsetOf(j) \notin EmbedFailedAt
                    /\ \A c \in EmbedCallsOf(j) :
                          /\ ~embedCalls[c].threw
                          /\ Len(embedCalls[c].answer) = Len(embedCalls[c].texts)
                          /\ embedCalls[c].texts[j - embedCalls[c].at] = allChunks[j].pageContent
                          /\ submitted[p].featureVector
                                = embedCalls[c].answer[j - embedCalls[c].at]
        /\ \A p \in 1..Len(submitted), q \in 1..Len(submitted) :
              p < q =>
                  \A i \in PositionsOfId(submitted[p].datapointId),
                     j \in PositionsOfId(submitted[q].datapointId) : i < j

\* the run has returned; one embedding batch threw and one came back with
\* the wrong number of vectors or threw as well, and the chunks of another,
\* two or more, went out in an upsert request, in two requests or more
C30_Witness ==
    /\ pc = "returned"
    /\ EmbedFailedAt # {}
    /\ Len(upsertCalls) >= 2
    /\ Len(SubmittedFrom(1)) >= 3
    /\ Len(SubmittedFrom(1)) < Len(allChunks)
    /\ \E k \in 1..Len(upsertCalls) : ~upsertCalls[k].ok

\* C31: the chunks of a run have ids that differ two by two, as values and
\* as the strings documentId + "_chunk_" + ordinal they stand for, also
\* when a document's id is itself the id of another document's chunk; and
\* the datapoints of an upsert request that succeeded are in the index from
\* then on: no later request of the run writes over them.
C31_ChunkIdsDistinct ==
    /\ \A k \in 1..Len(allChunks), l \in 1..Len(allChunks) :
          k # l =>
              /\ allChunks[k].id # allChunks[l].id
              /\ ChunkIdString(allChunks[k].id) # ChunkIdString(allChunks[l].id)
              /\ (allChunks[k].source # allChunks[l].source \/ Ordinal(k) # Ordinal(l))
    /\ \A c \in 1..Len(upsertCalls) :
          upsertCalls[c].ok =>
              \A d \in 1..Len(upsertCalls[c].datapoints) :
                  upsertCalls[c].datapoints[d] \in index

\* two files with two chunks each, the second file's id the string of the
\* first file's first chunk id; all four were upserted and are in the index
C31_Witness ==
    /\ pc = "returned"
    /\ Len(allChunks) >= 4
    /\ \E k \in 1..Len(allChunks), l \in 1..Len(allChunks) :
          /\ Ordinal(k) = 0
          /\ Ordinal(l) = 1
          /\ DocumentIdString(allChunks[l].source) = ChunkIdString(allChunks[k].id)
    /\ upsertedCount = Len(allChunks)
    /\ Len(upsertCalls) >= 2

\* C32: with no chunk generated there is no embedding call and no upsert
\* call, ever; with no record embedded there is no upsert call; the run is
\* in its embedding stage only with chunks and in its upsert stage only with
\* embedded records; and a run that threw never got as far as an embedding
\* call: once the file loop is over the run returns, answered 200, with the
\* status 'No chunks generated' or 'No chunks embedded' in the summary of a
\* run that upserted nothing, the latter after every batch was tried.
C32_EmptyStagesSkipped ==
    /\ allChunks = <<>> => embedCalls = <<>> /\ upsertCalls = <<>>
    /\ embeddedChunks = <<>> => upsertCalls = <<>>
    /\ pc = "embedChunks" => allChunks # <<>>
    /\ pc = "upsertVectors" => embeddedChunks # <<>>
    /\ pc = "thrown" => embedCalls = <<>> /\ upsertCalls = <<>>
    /\ embedCalls # <<>> \/ upsertCalls # <<>> => pc \in {"embedChunks", "upsertVectors", "returned"}
    /\ pc = "returned" /\ allChunks = <<>> =>
          /\ result = [filesProcessed |-> 0, chunksGenerated |-> 0,
                       status |-> "No chunks generated"]
          /\ httpStatus = 200
    /\ pc = "returned" /\ allChunks # <<>> /\ embeddedChunks = <<>> =>
          /\ result = [filesProcessed |-> filesProcessed,
                       chunksGenerated |-> Len(allChunks),
                       chunksEmbedded |-> 0,
                       status |-> "No chunks embedded"]
          /\ Len(embedCalls) = CeilDiv(Len(allChunks), EMBEDDING_BATCH_SIZE)
          /\ httpStatus = 200

\* chunks of two batches were generated, both batches failed, one of them
\* by a throw: the run returned 'No chunks embedded' without an upsert call
C32_Witness ==
    /\ pc = "returned"
    /\ Len(embedCalls) >= 2
    /\ CountLogged("embedError") >= 1
    /\ embeddedChunks = <<>>
    /\ upsertCalls = <<>>
    /\ result.status = "No chunks embedded"
    /\ httpStatus = 200


\* ---- C33 ----------------------------------------------------------------------
\* every secret was fetched and every required key has a value: the variables
\* of the environment are set, no access was rejected, no payload is empty and
\* the key of the service account is the JSON of an object
ConfigComplete ==
    /\ config.env.GCP_PROJECT_ID # ""
    /\ config.env.GCP_REGION # ""
    /\ \A name \in SecretNames : config.secrets[name] \notin {"rejected", ""}
    /\ config.secrets[DRIVE_SERVICE_ACCOUNT_KEY] = "{key}"

NoPipelineCall ==
    /\ listCalls = 0
    /\ contentCalls = <<>>
    /\ embedCalls = <<>>
    /\ upsertCalls = <<>>

\* C33: runIngestion lists, reads, embeds or writes only when every secret was
\* fetched and every required key of the configuration has a value; with a
\* secret that cannot be fetched or a key that is missing it throws before the
\* listing and the trigger answers 500
C33_ConfigGatesPipeline ==
    /\ (~NoPipelineCall \/ pc \notin {"getConfig", "thrown"}) => ConfigComplete
    /\ (~ConfigComplete /\ pc # "getConfig") =>
          /\ pc = "thrown"
          /\ NoPipelineCall
          /\ httpStatus = 500
          /\ response.status = "error"
          /\ errorMessage \in {"GCP_PROJECT_ID environment variable is required",
                               "GCP_REGION environment variable is required",
                               "Failed to load required secret",
                               "Missing required configuration keys"}
          /\ (errorMessage = "Missing required configuration keys") <=>
                /\ config.env.GCP_PROJECT_ID # "" /\ config.env.GCP_REGION # ""
                /\ \A name \in SecretNames : config.secrets[name] # "rejected"
                /\ config.secrets[DRIVE_SERVICE_ACCOUNT_KEY] # ""

\* a folder id with an empty payload stopped the run with status 500
C33_Witness ==
    /\ pc = "thrown"
    /\ httpStatus = 500
    /\ errorMessage = "Missing required configuration keys"
    /\ config.secrets[<<"GOOGLE", "DRIVE", "FOLDER", "ID">>] = ""
    /\ \A name \in SecretNames \ {<<"GOOGLE", "DRIVE", "FOLDER", "ID">>} :
          config.secrets[name] \in {"value", "{key}"}
    /\ NoPipelineCall

\* ---- C34 ----------------------------------------------------------------------
\* The standalone script (scripts/fetch-style-examples.js) has the helpers of
\* the function, line for line (script l.418-651, index.js l.106-308), and its
\* own runIngestion. Its run is followed here over the answers the function's
\* run got: the listing (files, or the listing's throw), the content of each
\* file the function asked for (contents), the splitter's throw, what
\* embedChunks returned (embeddedChunks). `answered` is false when the script
\* asks for something the function's run never asked for; `exit` is the
\* exit code as the shell shows it, once the process has exited.
ScriptStart ==
    [trace |-> <<>>, allChunks |-> <<>>, filesProcessed |-> 0,
     exit |-> "running", answered |-> TRUE]

\* the script's loop as it would be splitting every content that is not null
ScriptFile_splitsEmpty(run, i) ==
    IF i > Len(contents)
    THEN [run EXCEPT !.answered = FALSE]
    ELSE LET file == files[i]
             content == contents[i]
             asked == Append(run.trace, <<"getFileContent", file.id>>)
             split == Append(asked, <<"splitText", file.id>>)
             chunks == splitText(content.text, file)
         IN  IF content.ok
             THEN IF pc = "thrown" /\ errorMessage = "splitter error" /\ i = Len(contents)
                  THEN [run EXCEPT !.trace = split, !.exit = "1"]
                  ELSE IF Len(chunks) > 0
                       THEN [run EXCEPT !.trace = split,
                                        !.allChunks = @ \o chunks,
                                        !.filesProcessed = @ + 1]
                       ELSE [run EXCEPT !.trace = split]
             ELSE [run EXCEPT !.trace = asked]

\* one turn of the script's for loop (script l.731-744): getFileContent, then
\* splitText when the content is truthy, whose throw reaches the catch of
\* l.767 and exits with 1; chunks are pushed and the file is counted when
\* there are chunks
ScriptFile(run, i) ==
    IF i > Len(contents)
    THEN [run EXCEPT !.answered = FALSE]
    ELSE LET file == files[i]
             content == contents[i]
             asked == Append(run.trace, <<"getFileContent", file.id>>)
             split == Append(asked, <<"splitText", file.id>>)
             chunks == splitText(content.text, file)
         IN  IF content.ok /\ content.text # <<>>
             THEN IF pc = "thrown" /\ errorMessage = "splitter error" /\ i = Len(contents)
                  THEN [run EXCEPT !.trace = split, !.exit = "1"]
                  ELSE IF Len(chunks) > 0
                       THEN [run EXCEPT !.trace = split,
                                        !.allChunks = @ \o chunks,
                                        !.filesProcessed = @ + 1]
                       ELSE [run EXCEPT !.trace = split]
             ELSE [run EXCEPT !.trace = asked]

\* the script's for loop over the files (script l.731)
RECURSIVE ScriptFiles(_, _)
ScriptFiles(run, i) ==
    IF i > Len(files) \/ run.exit # "running" \/ ~run.answered
    THEN run
    ELSE ScriptFiles(ScriptFile(run, i), i + 1)

\* the script after its loop (script l.749-765): embedChunks when there are
\* chunks, upsertVectors when there are embedded chunks; runIngestion
\* resolves and the caller exits with 0 (script l.774-778)
ScriptStages(run) ==
    IF run.exit # "running" \/ ~run.answered
    THEN run
    ELSE IF Len(run.allChunks) > 0
    THEN LET embedding == Append(run.trace, <<"embedChunks", run.allChunks>>)
         IN  IF embedCalls = <<>> \/ run.allChunks # allChunks
             THEN [run EXCEPT !.trace = embedding, !.answered = FALSE]
             ELSE IF Len(embeddedChunks) > 0
                  THEN [run EXCEPT
                          !.trace = Append(embedding, <<"upsertVectors", embeddedChunks>>),
                          !.answered = upsertCalls # <<>>,
                          !.exit = "0"]
                  ELSE [run EXCEPT !.trace = embedding, !.exit = "0"]
    ELSE [run EXCEPT !.exit = "0"]

\* the script's runIngestion and its caller (script l.655-782): a failure
\* of the configuration or of the clients exits with 1 before the try, a
\* throw of listDriveFiles exits with 1 from the catch
scriptRunIngestion ==
    IF pc = "thrown" /\ errorMessage \in {"GCP_PROJECT_ID environment variable is required",
                                         "GCP_REGION environment variable is required",
                                         "Failed to load required secret",
                                         "Missing required configuration keys",
                                         "client initialization failed"}
    THEN [ScriptStart EXCEPT !.exit = "1"]
    ELSE LET listing == [ScriptStart EXCEPT !.trace = << <<"listDriveFiles", 0>> >>]
         IN  IF pc = "thrown" /\ errorMessage = "Failed to list files"
             THEN [listing EXCEPT !.exit = "1"]
             ELSE ScriptStages(ScriptFiles(listing, 1))

\* the invocations of one helper in a trace, by their argument
RECURSIVE CallsOf(_, _)
CallsOf(trace, helper) ==
    IF trace = <<>> THEN <<>>
    ELSE IF trace[1][1] = helper
         THEN <<trace[1][2]>> \o CallsOf(Tail(trace), helper)
         ELSE CallsOf(Tail(trace), helper)

\* the files among the given ids that getFileContent calls the Drive API for
\* (a file of an unsupported mime type returns null without a call)
RECURSIVE Fetched(_)
Fetched(ids) ==
    IF ids = <<>> THEN <<>>
    ELSE LET known == {k \in 1..Len(files) :
                          files[k].id = ids[1] /\ files[k].mimeType \in SUPPORTED_MIME_TYPES}
         IN  (IF known # {} THEN <<ids[1]>> ELSE <<>>) \o Fetched(Tail(ids))

\* C34: over the same answers of the listing, the content, the embedding and
\* the index APIs, the script's runIngestion makes the helper calls of the
\* function's runIngestion, in the same order and with the same arguments,
\* and exits with 0 where the function returns and with 1 where it throws
C34_ScriptEquivalent ==
    RunEnded =>
        LET run == scriptRunIngestion
        IN  /\ run.answered
            /\ run.exit = (IF pc = "returned" THEN "0" ELSE "1")
            /\ (CallsOf(run.trace, "listDriveFiles") # <<>>) <=> (listCalls > 0)
            /\ Fetched(CallsOf(run.trace, "getFileContent")) = contentCalls
            /\ Len(CallsOf(run.trace, "getFileContent")) = Len(contents)
            /\ CallsOf(run.trace, "splitText") = splitCalls
            /\ CallsOf(run.trace, "embedChunks") =
                  (IF embedCalls = <<>> THEN <<>> ELSE <<allChunks>>)
            /\ CallsOf(run.trace, "upsertVectors") =
                  (IF upsertCalls = <<>> THEN <<>> ELSE <<embeddedChunks>>)
            /\ run.exit = "0" =>
                  /\ run.allChunks = allChunks
                  /\ run.filesProcessed = filesProcessed

\* both went through every stage: two files fetched, one of them empty, and
\* chunks embedded and written
C34_Witness ==
    /\ pc = "returned"
    /\ upsertCalls # <<>>
    /\ Len(contentCalls) >= 2
    /\ \E i \in 1..Len(contents) : contents[i].ok /\ contents[i].text = <<>>
    /\ scriptRunIngestion.exit = "0"
    /\ Len(CallsOf(scriptRunIngestion.trace, "upsertVectors")) = 1

\* ---- C35 ----------------------------------------------------------------------
\* C35: however the calls of initializeRetriever overlap, at most one store
\* is built, and every call that has returned has returned the same instance,
\* which is the cached one
C35_OneRetrieverPerProcess ==
    /\ retriever.stores <= 1
    /\ \A a \in 1..Len(retriever.calls), b \in 1..Len(retriever.calls) :
          /\ retriever.calls[a].state = "returned"
          /\ retriever.calls[b].state = "returned"
          => retriever.calls[a].value = retriever.calls[b].value
    /\ \A a \in 1..Len(retriever.calls) :
          retriever.calls[a].state = "returned"
          => retriever.calls[a].value = retriever.retrieverInstance

\* ---- C36 ----------------------------------------------------------------------
\* a call with a question, documents and a history
ValidCall(call) == ~InvalidInput(call.question, call.documents, call.slackHistory)

\* a call that loaded the configuration and went on to the chain built the
\* client
BuiltClient(call) == call.configLoaded /\ call.invoked

\* C36: no call of generateAnswer ends rejected. A call with valid input
\* whose client could not be built, or whose chain failed, has returned the
\* apology; one whose chain gave an empty answer has returned 'LLM returned
\* an empty response.'; one whose chain gave a text has returned it. The
\* client is cached only by a call that built it, and a valid call made
\* while no call before it has built the client tries to build it itself.
C36_FailuresReturnApology ==
    /\ \A c \in 1..Len(generator.calls) :
          LET call == generator.calls[c]
          IN  /\ call.state \in {"getConfig", "getLlmClient", "invoke", "returned"}
              /\ call.outcome \in {"client failed", "chain failed"} =>
                    /\ ValidCall(call)
                    /\ call.state = "returned"
                    /\ call.value = APOLOGY
              /\ call.outcome = "client failed" => ~call.invoked
              /\ call.outcome = "empty answer" =>
                    call.state = "returned" /\ call.value = EMPTY_RESPONSE
              /\ call.outcome = "answer" =>
                    call.state = "returned" /\ call.value = <<"answer">>
              /\ call.state = "returned" => call.outcome # "none"
              /\ (ValidCall(call)
                     /\ \A a \in 1..(c - 1) : ~BuiltClient(generator.calls[a]))
                 => call.configLoaded
    /\ generator.llm <=> \E c \in 1..Len(generator.calls) : BuiltClient(generator.calls[c])

\* the first call could not build the client and returned the apology; the
\* second loaded the configuration again, built the client, and its chain
\* gave an empty answer
C36_Witness ==
    /\ Len(generator.calls) = 2
    /\ generator.calls[1].outcome = "client failed"
    /\ generator.calls[1].value = APOLOGY
    /\ generator.calls[2].configLoaded
    /\ generator.calls[2].outcome = "empty answer"
    /\ generator.llm

\* ---- C37 ----------------------------------------------------------------------
\* the positions of the calls that posted the given text to the thread of
\* the click
ThreadPosts(text) ==
    {j \in 1..Len(handler.calls) :
        /\ handler.calls[j].api = "chat.postMessage"
        /\ handler.calls[j].text = text}

\* a call after ack was rejected, the apology's own post apart
CallFailed ==
    \E j \in 1..Len(handler.calls) :
        /\ handler.calls[j].api # "ack"
        /\ handler.calls[j].text # "Sorry"
        /\ ~handler.calls[j].ok

Acknowledged ==
    /\ handler.calls # <<>>
    /\ handler.calls[1].api = "ack"
    /\ handler.calls[1].ok

\* C37: once ack has resolved the handler never ends rejected. When it is
\* through, it has posted the apology once if a Slack call after ack was
\* rejected and not at all if none was, to the thread of the click, and
\* that post was its last call whether or not Slack took it. The thanks
\* and the apology are never both delivered.
C37_ErrorNotifiedOnce ==
    /\ Acknowledged => handler.pc # "rejected"
    /\ handler.pc = "rejected" => Len(handler.calls) = 1 /\ ~handler.calls[1].ok
    /\ Cardinality(ThreadPosts("Sorry")) <= 1
    /\ \A j \in ThreadPosts("Sorry") :
          /\ CallFailed
          /\ handler.calls[j].channel = ORIGINAL_CHANNEL
          /\ handler.calls[j].ts = ThreadTs
          /\ j = Len(handler.calls)
          /\ handler.pc = "done"
    /\ (handler.pc = "done" /\ CallFailed) => Cardinality(ThreadPosts("Sorry")) = 1
    /\ handler.pc = "catch" => CallFailed /\ ThreadPosts("Sorry") = {}
    /\ Cardinality({j \in ThreadPosts("Sorry") \cup ThreadPosts("Thanks") :
                       handler.calls[j].ok}) <= 1

\* the permalink could not be made, the apology was tried once and Slack
\* rejected it too: the handler is through with nothing in the thread
C37_Witness ==
    /\ handler.pc = "done"
    /\ handler.errors = <<"chat.getPermalink", "notify">>
    /\ Cardinality(ThreadPosts("Sorry")) = 1
    /\ \A j \in ThreadPosts("Sorry") : ~handler.calls[j].ok
    /\ ThreadPosts("Thanks") = {}

\* ---- C38 ----------------------------------------------------------------------
\* C38: the apology is posted only when no incident message was posted to
\* the ticketing channel: no post of the apology comes after a post to the
\* ticketing channel that Slack took.
C38_ApologyOnlyWithoutIncident ==
    \A j \in ThreadPosts("Sorry") :
        ~\E i \in 1..(j - 1) :
            /\ handler.calls[i].api = "chat.postMessage"
            /\ handler.calls[i].channel = TICKETING_CHANNEL
            /\ handler.calls[i].ok
====
